---- MODULE Spec2Model ----
(***************************************************************************)
(* LiveGraphWindow (src/graph_window.py): the bounded per-channel sample   *)
(* store, the zoom/pan window, the geometry cached by redraw, what redraw  *)
(* draws and the hover readout; ArduinoInterface.poll                      *)
(* (src/logger_core.py).                                                   *)
(*                                                                         *)
(* Numbers.  Python floats are modelled as integers in fixed units:        *)
(*   - times and window lengths in ticks of 1e-6 s (EPS is one tick, the   *)
(*     1e-6 of redraw), so 300.0 s, 5.0 s and every halving/doubling the   *)
(*     zoom handlers reach are exact;                                      *)
(*   - values in hundredths of a degree (Deg is 1.0).                      *)
(* NaN and None are two reserved integers outside the data range; every    *)
(* float operation the code performs goes through the F* / Py* operators   *)
(* below, which give NaN the IEEE/Python behaviour (arithmetic yields NaN, *)
(* every ordered comparison is false, min()/max() keep the first item      *)
(* unless a later one compares strictly smaller/greater).                  *)
(***************************************************************************)
EXTENDS Integers, Sequences, FiniteSets, TLC

VARIABLES
    active_channels,     \* self.active_channels: sequence of <<id, name>>
    history,             \* self.history: id -> [t: Seq, v: Seq]
    history_keys,        \* insertion order of the keys of self.history
    channel_visibility,  \* self.channel_visibility: id -> BOOLEAN (the BooleanVar's value)
    window_sec,          \* self.window_sec: None or a float
    pan_var,             \* self.pan_var: slider position, 0..100
    canvas_w, canvas_h,  \* canvas.winfo_width() / winfo_height()
    plot_left, plot_right, plot_top, plot_bottom,  \* cached hover geometry
    tmin, tmax, vmin, vmax,                        \* cached hover ranges
    canvas_items,        \* what the canvas holds: the polylines and legend entries
    hover_label,         \* self.hover_label_var: the hover readout
    latest_temp, latest_hold, latest_pwm,  \* ArduinoInterface: last parsed values
    poll_ret,            \* what the last ArduinoInterface.poll() returned
    is_logging,          \* ThermalLoggerApp.is_logging
    graph_window,        \* ThermalLoggerApp.graph_window: "None", or the window
                         \*   it refers to, "alive" or "destroyed"
    timers,              \* number of pending after(1000, self.poll_once) callbacks
    logger,              \* ThermalLoggerApp.logger: "None" or "open" (the TC-08)
    csv_file,            \* ThermalLoggerApp.csv_file / csv_writer: "None" or "open"
    csv_rows,            \* data rows written to the CSV file of the run
    arduino,             \* ThermalLoggerApp.arduino: "None" or "open"
    use_arduino_flag,    \* ThermalLoggerApp.use_arduino_flag
    duration_seconds,    \* ThermalLoggerApp.duration_seconds: None or a float
    app_channels,        \* ThermalLoggerApp.active_channels
    arrived,             \* observer: id -> <<elapsed, value>> of every valid reading
                         \*   supplied for that id since the last set_channels
    calls,               \* observer: add_sample calls since the last set_channels
    last                 \* observer: the handler that ran last, with its arguments

store_vars == <<active_channels, history, history_keys>>
geom_vars  == <<plot_left, plot_right, plot_top, plot_bottom, tmin, tmax, vmin, vmax>>
ard_vars   == <<latest_temp, latest_hold, latest_pwm>>
run_vars   == <<is_logging, graph_window, timers, logger, csv_file, csv_rows,
               arduino, use_arduino_flag, duration_seconds, app_channels>>
app_vars   == <<ard_vars, poll_ret, run_vars>>
vars == <<active_channels, history, history_keys, channel_visibility, window_sec,
          pan_var, canvas_w, canvas_h, plot_left, plot_right, plot_top, plot_bottom,
          tmin, tmax, vmin, vmax, canvas_items, hover_label,
          latest_temp, latest_hold, latest_pwm, poll_ret,
          is_logging, graph_window, timers, logger, csv_file, csv_rows,
          arduino, use_arduino_flag, duration_seconds, app_channels,
          arrived, calls, last>>

----------------------------------------------------------------------------
(* Bounds of the model *)

\* The cap on retained samples per channel.  logger_core.py sets 2000; the
\* model runs the same code with a small cap so that eviction is reached.
MAX_GRAPH_POINTS == 2

\* add_sample calls explored per run (between two set_channels calls): enough
\* to overfill a series, so that the oldest pair is evicted.
MaxCalls == MAX_GRAPH_POINTS + 1

----------------------------------------------------------------------------
(* Python values *)

None == -2000000000
NaN  == -2000000001

EPS == 1                 \* 1e-6 seconds, the unit of time
Sec == 1000000 * EPS     \* 1.0 second
Deg == 100               \* 1.0 degree, values being in hundredths

IsNaN(x) == x = NaN

FLt(a, b) == ~IsNaN(a) /\ ~IsNaN(b) /\ a < b
FLe(a, b) == ~IsNaN(a) /\ ~IsNaN(b) /\ a <= b
FGt(a, b) == ~IsNaN(a) /\ ~IsNaN(b) /\ a > b
FGe(a, b) == ~IsNaN(a) /\ ~IsNaN(b) /\ a >= b

FAdd(a, b) == IF IsNaN(a) \/ IsNaN(b) THEN NaN ELSE a + b
FSub(a, b) == IF IsNaN(a) \/ IsNaN(b) THEN NaN ELSE a - b
FHalf(a)   == IF IsNaN(a) THEN NaN ELSE a \div 2
FDouble(a) == IF IsNaN(a) THEN NaN ELSE 2 * a
\* pct/100 * d, pct a whole percentage; d is a multiple of 100 ticks for every
\* time and window the model reaches, so the quotient is exact
FMulPct(pct, d) == IF IsNaN(d) THEN NaN ELSE pct * (d \div 100)

\* min(a, b) and max(a, b) of two arguments
PyMin2(a, b) == IF FLt(b, a) THEN b ELSE a
PyMax2(a, b) == IF FGt(b, a) THEN b ELSE a

\* min(list) and max(list) of a non-empty list
RECURSIVE PyMinFrom(_, _, _)
PyMinFrom(s, i, m) ==
    IF i > Len(s) THEN m ELSE PyMinFrom(s, i + 1, PyMin2(m, s[i]))
PyMin(s) == PyMinFrom(s, 2, s[1])

RECURSIVE PyMaxFrom(_, _, _)
PyMaxFrom(s, i, m) ==
    IF i > Len(s) THEN m ELSE PyMaxFrom(s, i + 1, PyMax2(m, s[i]))
PyMax(s) == PyMaxFrom(s, 2, s[1])

\* The objects a temps dict may hold
PyFloatObj(x) == [kind |-> "float", x |-> x]
PyNoneObj     == [kind |-> "None"]
PyStrObj(s)   == [kind |-> "str", s |-> s]
PyListObj     == [kind |-> "list"]

\* float(str): the texts the model uses
ParseFloat(s) ==
    CASE s = "12.00" -> [ok |-> TRUE, x |-> 12 * Deg]
      [] s = "25.30" -> [ok |-> TRUE, x |-> 25 * Deg + 30]
      [] s = "nan"   -> [ok |-> TRUE, x |-> NaN]
      [] OTHER       -> [ok |-> FALSE, exc |-> "ValueError"]

\* float(val)
PyFloat(val) ==
    CASE val.kind = "float" -> [ok |-> TRUE, x |-> val.x]
      [] val.kind = "str"   -> ParseFloat(val.s)
      [] OTHER              -> [ok |-> FALSE, exc |-> "TypeError"]

\* temps.get(ch, float("nan"))
DictGet(temps, ch) ==
    IF ch \in DOMAIN temps THEN temps[ch] ELSE PyFloatObj(NaN)

----------------------------------------------------------------------------
(* Channels *)

ChanIds == {1, 2}
ChanName(ch) == IF ch = 1 THEN "CH1" ELSE "CH2"
Chan(ch) == <<ch, ChanName(ch)>>

\* The lists set_channels is called with: non-empty, ids distinct, as
\* start_logging builds them; both orders of two channels.
ChannelLists == { <<Chan(1)>>, <<Chan(1), Chan(2)>>, <<Chan(2), Chan(1)>> }

ActiveIds == { active_channels[i][1] : i \in 1..Len(active_channels) }

----------------------------------------------------------------------------
(* Program constants *)

max_points       == MAX_GRAPH_POINTS   \* self.max_points
DEFAULT_WINDOW   == 300                \* seconds: window_sec = 300.0
MIN_WINDOW       == 5                  \* seconds: max(5.0, ...)
WIN_W            == 950                \* geometry("950x500")
WIN_H            == 500
CANVAS_PADX      == 8                  \* canvas.pack(padx=8)
FALLBACK_W       == 400                \* winfo_width() or 400
FALLBACK_H       == 300                \* winfo_height() or 300
legend_width     == 130
margin_right     == 40
margin_top       == 20
margin_bottom    == 30
margin_left_extra == 30
MIN_PLOT_W       == 10                 \* plot_right <= plot_left + 10

----------------------------------------------------------------------------
(* The store: add_sample's loop *)

EmptyHistory == [ch \in {} |-> [t |-> <<>>, v |-> <<>>]]

\* lst[-n:]
LastN(lst, n) ==
    IF Len(lst) <= n THEN lst ELSE SubSeq(lst, Len(lst) - n + 1, Len(lst))

\* Mutants of Evict: only the time list is cut; the first max_points items are
\* kept instead of the last
Evict_TimesOnly(series) ==
    IF Len(series.t) > max_points
    THEN [t |-> LastN(series.t, max_points), v |-> series.v]
    ELSE series

Evict_KeepOldest(series) ==
    IF Len(series.t) > max_points
    THEN [t |-> SubSeq(series.t, 1, max_points), v |-> SubSeq(series.v, 1, max_points)]
    ELSE series

\* Mutant of Evict: the oldest sample is moved to the end instead of dropped
Evict_Rotate(series) ==
    IF Len(series.t) > max_points
    THEN [t |-> Tail(series.t) \o <<Head(series.t)>>,
          v |-> Tail(series.v) \o <<Head(series.v)>>]
    ELSE series

\* "Limit memory": both lists are cut to their last max_points items once the
\* time list is longer than max_points
Evict(series) ==
    IF Len(series.t) > max_points
    THEN [t |-> LastN(series.t, max_points), v |-> LastN(series.v, max_points)]
    ELSE series

\* Mutant of Caught: except ValueError only
Caught_ValueErrorOnly(exc) == exc = "ValueError"

\* except (TypeError, ValueError): continue
Caught(exc) == exc \in {"TypeError", "ValueError"}

\* The guard of one loop iteration: "skip" (continue), "append", or the name
\* of an exception that the except clause does not catch
Verdict(val) ==
    IF val.kind = "None" THEN "skip"
    ELSE LET f == PyFloat(val) IN
         IF ~f.ok THEN (IF Caught(f.exc) THEN "skip" ELSE f.exc)
         ELSE IF IsNaN(f.x) THEN "skip" ELSE "append"

\* Mutant of AddOne: the series is created before the value is looked at
AddOne_CreateFirst(st, ch, elapsed, temps) ==
    LET val == DictGet(temps, ch)
        vd  == Verdict(val)
        old == IF ch \in DOMAIN st.h THEN st.h[ch] ELSE [t |-> <<>>, v |-> <<>>]
        new == IF vd = "append"
               THEN Evict([t |-> Append(old.t, elapsed),
                           v |-> Append(old.v, PyFloat(val).x)])
               ELSE old
    IN  IF st.exc # "" THEN st
        ELSE [h    |-> [c \in (DOMAIN st.h) \cup {ch} |->
                           IF c = ch THEN new ELSE st.h[c]],
              keys |-> IF ch \in DOMAIN st.h THEN st.keys ELSE Append(st.keys, ch),
              exc  |-> IF vd \in {"skip", "append"} THEN "" ELSE vd]

\* One iteration of "for ch, _name in self.active_channels" on the loop state
\* st = [h: history, keys: key order, exc: escaped exception or ""]
AddOne(st, ch, elapsed, temps) ==
    LET val == DictGet(temps, ch)
        vd  == Verdict(val)
    IN  IF st.exc # "" THEN st
        ELSE IF vd = "skip" THEN st
        ELSE IF vd # "append" THEN [st EXCEPT !.exc = vd]
        ELSE LET old == IF ch \in DOMAIN st.h THEN st.h[ch]
                        ELSE [t |-> <<>>, v |-> <<>>]
                 new == Evict([t |-> Append(old.t, elapsed),
                               v |-> Append(old.v, PyFloat(val).x)])
             IN  [h    |-> [c \in (DOMAIN st.h) \cup {ch} |->
                               IF c = ch THEN new ELSE st.h[c]],
                  keys |-> IF ch \in DOMAIN st.h THEN st.keys
                           ELSE Append(st.keys, ch),
                  exc  |-> ""]

RECURSIVE AddLoop(_, _, _, _, _)
AddLoop(st, chans, i, elapsed, temps) ==
    IF i > Len(chans) THEN st
    ELSE AddLoop(AddOne(st, chans[i][1], elapsed, temps), chans, i + 1,
                 elapsed, temps)

----------------------------------------------------------------------------
(* redraw: the geometry it caches *)

NoGeom == [plot_left |-> None, plot_right |-> None, plot_top |-> None,
           plot_bottom |-> None, tmin |-> None, tmax |-> None,
           vmin |-> None, vmax |-> None]

\* Mutant of AllTimes: only the first channel's times
AllTimes_FirstOnly(h, keys, i) ==
    IF i > Len(keys) THEN <<>> ELSE h[keys[i]].t

\* all_times / all_vals: the lists of history.values(), in key order
RECURSIVE AllTimes(_, _, _)
AllTimes(h, keys, i) ==
    IF i > Len(keys) THEN <<>> ELSE h[keys[i]].t \o AllTimes(h, keys, i + 1)

\* Mutant of AllVals: only the first channel's values
AllVals_FirstOnly(h, keys, i) ==
    IF i > Len(keys) THEN <<>> ELSE h[keys[i]].v

RECURSIVE AllVals(_, _, _)
AllVals(h, keys, i) ==
    IF i > Len(keys) THEN <<>> ELSE h[keys[i]].v \o AllVals(h, keys, i + 1)

\* frac = max(0.0, min(1.0, pan/100)), as a percentage
PanFrac(pan) == PyMax2(0, PyMin2(100, pan))

\* Mutant of VisibleRange: the pan fraction runs from the latest window to
\* the earliest
VisibleRange_PanReversed(win, pan, global_tmin, global_tmax) ==
    IF win = None THEN <<global_tmin, global_tmax>>
    ELSE LET span      == PyMax2(FSub(global_tmax, global_tmin), EPS)
             window    == PyMin2(win, span)
             start_min == global_tmin
             start_max == FSub(global_tmax, window)
             t0 == IF FLe(start_max, start_min) THEN global_tmin
                   ELSE FSub(start_max,
                             FMulPct(PanFrac(pan), FSub(start_max, start_min)))
         IN  <<t0, FAdd(t0, window)>>

\* Mutant of VisibleRange: the window is not capped at the span
VisibleRange_NoCap(win, pan, global_tmin, global_tmax) ==
    IF win = None THEN <<global_tmin, global_tmax>>
    ELSE LET window    == win
             start_min == global_tmin
             start_max == FSub(global_tmax, window)
             t0 == IF FLe(start_max, start_min) THEN global_tmin
                   ELSE FAdd(start_min,
                             FMulPct(PanFrac(pan), FSub(start_max, start_min)))
         IN  <<t0, FAdd(t0, window)>>

\* "Determine displayed tmin/tmax", before the tmax <= tmin repair
VisibleRange(win, pan, global_tmin, global_tmax) ==
    IF win = None THEN <<global_tmin, global_tmax>>
    ELSE LET span      == PyMax2(FSub(global_tmax, global_tmin), EPS)
             window    == PyMin2(win, span)
             start_min == global_tmin
             start_max == FSub(global_tmax, window)
             t0 == IF FLe(start_max, start_min) THEN global_tmin
                   ELSE FAdd(start_min,
                             FMulPct(PanFrac(pan), FSub(start_max, start_min)))
         IN  <<t0, FAdd(t0, window)>>

\* Mutant of Widen: the range is never repaired
Widen_NoRepair(lo, hi, one) == hi

\* Mutant of Widen: the repair tests hi < lo
Widen_Strict(lo, hi, one) == IF FLt(hi, lo) THEN FAdd(lo, one) ELSE hi

\* if hi <= lo: hi = lo + 1.0
Widen(lo, hi, one) == IF FLe(hi, lo) THEN FAdd(lo, one) ELSE hi

Redraw(h, keys, win, pan, cw, chh) ==
    IF keys = <<>> THEN NoGeom
    ELSE LET all_times == AllTimes(h, keys, 1)
             all_vals  == AllVals(h, keys, 1)
         IN  IF Len(all_times) < 2 \/ all_vals = <<>> THEN NoGeom
             ELSE LET rng == VisibleRange(win, pan, PyMin(all_times), PyMax(all_times))
                      lo  == PyMin(all_vals)
                      w   == IF cw = 0 THEN FALLBACK_W ELSE cw
                      hh  == IF chh = 0 THEN FALLBACK_H ELSE chh
                      pl  == legend_width + margin_left_extra
                      pr  == w - margin_right
                  IN  IF pr <= pl + MIN_PLOT_W THEN NoGeom
                      ELSE [plot_left |-> pl, plot_right |-> pr,
                            plot_top |-> margin_top,
                            plot_bottom |-> hh - margin_bottom,
                            tmin |-> rng[1],
                            tmax |-> Widen(rng[1], rng[2], Sec),
                            vmin |-> lo,
                            vmax |-> Widen(lo, PyMax(all_vals), Deg)]

\* Mutant of SetGeom: the reset at the top of redraw leaves out
\* tmin, tmax, vmin, vmax
SetGeom_KeepRanges(g) ==
    /\ plot_left' = g.plot_left
    /\ plot_right' = g.plot_right
    /\ plot_top' = g.plot_top
    /\ plot_bottom' = g.plot_bottom
    /\ IF g.plot_left = None
       THEN UNCHANGED <<tmin, tmax, vmin, vmax>>
       ELSE /\ tmin' = g.tmin
            /\ tmax' = g.tmax
            /\ vmin' = g.vmin
            /\ vmax' = g.vmax

\* The assignments redraw makes to the eight cached fields
SetGeom(g) ==
    /\ plot_left' = g.plot_left
    /\ plot_right' = g.plot_right
    /\ plot_top' = g.plot_top
    /\ plot_bottom' = g.plot_bottom
    /\ tmin' = g.tmin
    /\ tmax' = g.tmax
    /\ vmin' = g.vmin
    /\ vmax' = g.vmax

----------------------------------------------------------------------------
(* redraw: what it draws for the channels.  The grid, the axes and their    *)
(* labels are left out; a polyline is given by the samples it joins.        *)

\* self.graph_colors
GraphColors == <<"blue", "red", "green", "purple",
                 "orange", "brown", "magenta", "cyan">>

\* self.graph_colors[idx % len(self.graph_colors)], idx counted from 0
ColorOf(idx) == GraphColors[(idx % Len(GraphColors)) + 1]

\* canvas.delete("all") and nothing drawn for the channels
NoItems == [lines |-> <<>>, legend |-> <<>>]

\* Mutant of Visible: the BooleanVar is not consulted
Visible_Always(vis, ch) == TRUE

\* not (var is not None and not var.get())
Visible(vis, ch) == ~(ch \in DOMAIN vis /\ ~vis[ch])

\* Mutant of InWindow: every sample counts as inside
InWindow_All(t, lo, hi) == TRUE

\* not (t_val < tmin or t_val > tmax)
InWindow(t, lo, hi) == ~(FLt(t, lo) \/ FGt(t, hi))

\* coords: the samples of zip(t_list, v_list) inside [lo, hi], in order
RECURSIVE Coords(_, _, _, _, _)
Coords(t_list, v_list, i, lo, hi) ==
    IF i > Len(t_list) \/ i > Len(v_list) THEN <<>>
    ELSE (IF InWindow(t_list[i], lo, hi) THEN << <<t_list[i], v_list[i]>> >> ELSE <<>>)
         \o Coords(t_list, v_list, i + 1, lo, hi)

\* (part / whole) * length for 0 <= part <= whole, rounded down to a whole
\* pixel; a range of more than 2 s is measured in milliseconds, which keeps
\* the product inside the integers of the checker
Scale(part, whole, length) ==
    IF whole <= 2 * Sec THEN (length * part) \div whole
    ELSE (length * (part \div (Sec \div 1000))) \div (whole \div (Sec \div 1000))

\* Mutant of XOf: measured from the right edge
XOf_FromRight(t, g) ==
    g.plot_right - Scale(t - g.tmin, g.tmax - g.tmin, g.plot_right - g.plot_left)

\* x = plot_left + (t_val - tmin) / (tmax - tmin) * (plot_right - plot_left)
XOf(t, g) ==
    g.plot_left + Scale(t - g.tmin, g.tmax - g.tmin, g.plot_right - g.plot_left)

\* y = plot_bottom - (v_val - vmin) / (vmax - vmin) * (plot_bottom - plot_top);
\* a plot_bottom above plot_top makes the last factor negative
YOf(v, g) ==
    LET hgt == g.plot_bottom - g.plot_top
    IN  IF hgt >= 0
        THEN g.plot_bottom - Scale(v - g.vmin, g.vmax - g.vmin, hgt)
        ELSE g.plot_bottom + Scale(v - g.vmin, g.vmax - g.vmin, -hgt)

\* coords.extend((x, y)) for each sample of pts: what create_line(*coords)
\* is given for a polyline through the samples pts
Vertices(pts, g) == [k \in 1..Len(pts) |-> <<XOf(pts[k][1], g), YOf(pts[k][2], g)>>]

\* "Plot each visible channel": one create_line per channel that is visible,
\* has a series of at least 2 samples and at least 2 of them in the window
RECURSIVE Polylines(_, _, _, _, _)
Polylines(act, i, h, vis, g) ==
    IF i > Len(act) THEN <<>>
    ELSE LET ch  == act[i][1]
             pts == Coords(h[ch].t, h[ch].v, 1, g.tmin, g.tmax)
         IN  (IF /\ Visible(vis, ch)
                 /\ ch \in DOMAIN h
                 /\ Len(h[ch].t) >= 2
                 /\ Len(pts) >= 2
              THEN << [ch |-> ch, color |-> ColorOf(i - 1), pts |-> pts] >>
              ELSE <<>>)
             \o Polylines(act, i + 1, h, vis, g)

\* Mutant of Legend: an entry for every active channel
Legend_All(act, i, vis) ==
    [k \in 1..Len(act) |->
        [ch |-> act[k][1], color |-> ColorOf(k - 1), name |-> act[k][2]]]

\* Mutant of Legend: the colour is counted over the visible channels only
Legend_RankColors(act, i, vis) ==
    LET shown == SelectSeq(act, LAMBDA c : Visible(vis, c[1]))
    IN  [k \in 1..Len(shown) |->
            [ch |-> shown[k][1], color |-> ColorOf(k - 1), name |-> shown[k][2]]]

\* "Legend (only visible channels)": a coloured box and the name
RECURSIVE Legend(_, _, _)
Legend(act, i, vis) ==
    IF i > Len(act) THEN <<>>
    ELSE (IF Visible(vis, act[i][1])
          THEN << [ch |-> act[i][1], color |-> ColorOf(i - 1), name |-> act[i][2]] >>
          ELSE <<>>)
         \o Legend(act, i + 1, vis)

\* What the canvas holds after redraw: nothing after a bail-out
\* (canvas.delete("all"); return), otherwise the polylines and the legend
Paint(act, h, vis, g) ==
    IF g.plot_left = None THEN NoItems
    ELSE [lines |-> Polylines(act, 1, h, vis, g), legend |-> Legend(act, 1, vis)]

----------------------------------------------------------------------------
(* on_mouse_move: the hover readout *)

\* hover_label_var: the text set at construction, "", or a readout
\* "t=<minutes> min | <name>=<value> C | ..."
HoverPrompt == [kind |-> "prompt"]
HoverEmpty  == [kind |-> "empty"]

\* the eight cached fields, as redraw left them
Geom == [plot_left |-> plot_left, plot_right |-> plot_right,
         plot_top |-> plot_top, plot_bottom |-> plot_bottom,
         tmin |-> tmin, tmax |-> tmax, vmin |-> vmin, vmax |-> vmax]

Abs(a) == IF a < 0 THEN -a ELSE a

\* n / d * span for 0 <= n <= d, to the tick
MulFrac(n, d, span) == (span \div d) * n + ((span % d) * n) \div d

\* f"{t / 60.0:.2f}": minutes with two decimals, as hundredths of a minute
FmtMin(t) == (t + (30 * Sec) \div 100) \div ((60 * Sec) \div 100)

\* f"{v:.2f}": the integer part and the two decimals
FmtDeg(v) == <<v \div Deg, v % Deg>>

\* Mutant of Nearest: among equally near samples the later one wins
RECURSIVE Nearest_LastWins(_, _, _, _, _, _, _)
Nearest_LastWins(t_list, i, lo, hi, tc, best_idx, best_dt) ==
    IF i > Len(t_list) THEN best_idx
    ELSE IF ~InWindow(t_list[i], lo, hi)
         THEN Nearest_LastWins(t_list, i + 1, lo, hi, tc, best_idx, best_dt)
         ELSE LET dt == Abs(t_list[i] - tc)
              IN  IF best_idx = 0 \/ dt <= best_dt
                  THEN Nearest_LastWins(t_list, i + 1, lo, hi, tc, i, dt)
                  ELSE Nearest_LastWins(t_list, i + 1, lo, hi, tc, best_idx, best_dt)

\* best_idx of the scan over enumerate(t_list), counted from 1; 0 for None
RECURSIVE Nearest(_, _, _, _, _, _, _)
Nearest(t_list, i, lo, hi, tc, best_idx, best_dt) ==
    IF i > Len(t_list) THEN best_idx
    ELSE IF ~InWindow(t_list[i], lo, hi)
         THEN Nearest(t_list, i + 1, lo, hi, tc, best_idx, best_dt)
         ELSE LET dt == Abs(t_list[i] - tc)
              IN  IF best_idx = 0 \/ dt < best_dt
                  THEN Nearest(t_list, i + 1, lo, hi, tc, i, dt)
                  ELSE Nearest(t_list, i + 1, lo, hi, tc, best_idx, best_dt)

\* info: (name, t_val, v_val) of every visible channel with a sample in the
\* window, in the order of active_channels
RECURSIVE HoverInfo(_, _, _, _, _, _, _)
HoverInfo(act, i, h, vis, lo, hi, tc) ==
    IF i > Len(act) THEN <<>>
    ELSE LET ch   == act[i][1]
             best == Nearest(h[ch].t, 1, lo, hi, tc, 0, 0)
         IN  (IF /\ Visible(vis, ch)
                 /\ ch \in DOMAIN h
                 /\ h[ch].t # <<>>
                 /\ best # 0
              THEN << [name |-> act[i][2], t |-> h[ch].t[best], v |-> h[ch].v[best]] >>
              ELSE <<>>)
             \o HoverInfo(act, i + 1, h, vis, lo, hi, tc)

\* Mutant of ReadoutOf: the time shown is the last contributing channel's
ReadoutOf_LastTime(info) ==
    [kind |-> "readout",
     t |-> FmtMin(info[Len(info)].t),
     parts |-> [k \in 1..Len(info) |-> <<info[k].name, FmtDeg(info[k].v)>>]]

\* " | ".join(parts): the time of info[0], then name=value of every entry
ReadoutOf(info) ==
    [kind |-> "readout",
     t |-> FmtMin(info[1].t),
     parts |-> [k \in 1..Len(info) |-> <<info[k].name, FmtDeg(info[k].v)>>]]

\* Mutant of Outside: a pointer on the right or bottom edge is outside
Outside_EdgeExclusive(g, x, y) ==
    x < g.plot_left \/ x >= g.plot_right \/ y < g.plot_top \/ y >= g.plot_bottom

\* x < plot_left or x > plot_right or y < plot_top or y > plot_bottom
Outside(g, x, y) ==
    x < g.plot_left \/ x > g.plot_right \/ y < g.plot_top \/ y > g.plot_bottom

\* The text on_mouse_move sets for a pointer at (x, y)
Readout(act, h, keys, vis, g, x, y) ==
    IF keys = <<>> THEN HoverEmpty
    ELSE IF \/ g.plot_left = None \/ g.plot_right = None
            \/ g.plot_top = None \/ g.plot_bottom = None
            \/ g.tmin = None \/ g.tmax = None
         THEN HoverEmpty
    ELSE IF Outside(g, x, y) THEN HoverEmpty
    ELSE IF g.plot_right = g.plot_left \/ g.tmax = g.tmin THEN HoverEmpty
    ELSE LET t_current == g.tmin + MulFrac(x - g.plot_left,
                                           g.plot_right - g.plot_left,
                                           g.tmax - g.tmin)
             info == HoverInfo(act, 1, h, vis, g.tmin, g.tmax, t_current)
         IN  IF info = <<>> THEN HoverEmpty ELSE ReadoutOf(info)

----------------------------------------------------------------------------
(* Observers: what the handlers were given, recorded from the arguments *)

\* The value a temps entry carries when it is a number that is not NaN
\* (a float, or a text that reads as one); NaN otherwise
NumberOf(temps, ch) ==
    IF ch \notin DOMAIN temps THEN NaN
    ELSE IF temps[ch].kind = "float" THEN temps[ch].x
    ELSE IF temps[ch].kind = "str" /\ temps[ch].s = "12.00" THEN 12 * Deg
    ELSE NaN

ValidValue(temps, ch) == ~IsNaN(NumberOf(temps, ch))

NoArrivals == [ch \in ChanIds |-> <<>>]

----------------------------------------------------------------------------
(* Handlers *)

Init ==
    /\ active_channels = <<>>
    /\ history = EmptyHistory
    /\ history_keys = <<>>
    /\ channel_visibility = [ch \in {} |-> TRUE]
    /\ window_sec = DEFAULT_WINDOW * Sec
    /\ pan_var = 0
    /\ canvas_w = WIN_W - 2 * CANVAS_PADX
    /\ canvas_h = WIN_H - 100    \* the rows of controls take about 100 pixels
    /\ plot_left = None /\ plot_right = None
    /\ plot_top = None /\ plot_bottom = None
    /\ tmin = None /\ tmax = None /\ vmin = None /\ vmax = None
    /\ canvas_items = NoItems
    /\ hover_label = HoverPrompt
    /\ latest_temp = None /\ latest_hold = None /\ latest_pwm = None
    /\ poll_ret = <<None, None, None>>
    /\ is_logging = FALSE
    /\ graph_window = "None"
    /\ timers = 0
    /\ logger = "None" /\ csv_file = "None" /\ csv_rows = 0
    /\ arduino = "None" /\ use_arduino_flag = FALSE
    /\ duration_seconds = None
    /\ app_channels = <<>>
    /\ arrived = NoArrivals
    /\ calls = 0
    /\ last = [op |-> "init"]

\* list(active_channels): a copy, item by item
list(seq) == [i \in 1..Len(seq) |-> seq[i]]

\* Mutant of RefreshToggles: a fresh BooleanVar(value=True) for every listed id
RefreshToggles_Reset(vis, chans) ==
    LET ids == { chans[i][1] : i \in 1..Len(chans) }
    IN  [ch \in (DOMAIN vis) \cup ids |-> IF ch \in ids THEN TRUE ELSE vis[ch]]

\* refresh_channel_toggles: a BooleanVar(value=True) for every id of the list
\* that has none yet; the existing ones are reused
RefreshToggles(vis, chans) ==
    LET ids == { chans[i][1] : i \in 1..Len(chans) }
    IN  [ch \in (DOMAIN vis) \cup ids |-> IF ch \in DOMAIN vis THEN vis[ch] ELSE TRUE]

\* Mutant of HistoryClear: the history is kept
HistoryClear_Keep(h, keys) == [h |-> h, keys |-> keys]

\* self.history.clear()
HistoryClear(h, keys) == [h |-> EmptyHistory, keys |-> <<>>]

\* Mutant of set_channels: the view starts over with the new run
set_channels_ResetsView(chans) ==
    /\ UNCHANGED app_vars
    /\ active_channels' = list(chans)
    /\ history' = HistoryClear(history, history_keys).h
    /\ history_keys' = HistoryClear(history, history_keys).keys
    /\ channel_visibility' = RefreshToggles(channel_visibility, chans)
    /\ window_sec' = DEFAULT_WINDOW * Sec
    /\ pan_var' = 0
    /\ arrived' = NoArrivals
    /\ calls' = 0
    /\ last' = [op |-> "set_channels", chans |-> chans,
                n_before |-> Len(history_keys),
                new_ids |-> { chans[i][1] : i \in 1..Len(chans) }
                              \ DOMAIN channel_visibility]
    /\ UNCHANGED <<canvas_w, canvas_h, geom_vars, canvas_items, hover_label>>

set_channels(chans) ==
    /\ UNCHANGED app_vars
    /\ active_channels' = list(chans)
    /\ history' = HistoryClear(history, history_keys).h
    /\ history_keys' = HistoryClear(history, history_keys).keys
    /\ channel_visibility' = RefreshToggles(channel_visibility, chans)
    /\ arrived' = NoArrivals
    /\ calls' = 0
    /\ last' = [op |-> "set_channels", chans |-> chans,
                n_before |-> Len(history_keys),
                new_ids |-> { chans[i][1] : i \in 1..Len(chans) }
                              \ DOMAIN channel_visibility]
    /\ UNCHANGED <<window_sec, pan_var, canvas_w, canvas_h, geom_vars,
                   canvas_items, hover_label>>

add_sample(elapsed, temps) ==
    /\ UNCHANGED app_vars
    /\ calls < MaxCalls
    /\ LET st == AddLoop([h |-> history, keys |-> history_keys, exc |-> ""],
                         active_channels, 1, elapsed, temps)
       IN  /\ history' = st.h
           /\ history_keys' = st.keys
           /\ IF st.exc = ""
              THEN LET g == Redraw(st.h, st.keys, window_sec, pan_var,
                                   canvas_w, canvas_h)
                   IN  /\ SetGeom(g)
                       /\ canvas_items' = Paint(active_channels, st.h,
                                                channel_visibility, g)
              ELSE UNCHANGED <<geom_vars, canvas_items>>
           /\ last' = [op |-> "add_sample", elapsed |-> elapsed, temps |-> temps,
                       raised |-> st.exc]
    /\ arrived' = [ch \in ChanIds |->
                     IF ValidValue(temps, ch)
                     THEN Append(arrived[ch], <<elapsed, NumberOf(temps, ch)>>)
                     ELSE arrived[ch]]
    /\ calls' = calls + 1
    /\ UNCHANGED <<active_channels, channel_visibility, window_sec, pan_var,
                   canvas_w, canvas_h, hover_label>>

\* Mutants of ZoomInWindow: no 5 s floor; no default for the full view
ZoomInWindow_NoFloor(w) ==
    FHalf(IF w = None THEN DEFAULT_WINDOW * Sec ELSE w)

ZoomInWindow_NoDefault(w) ==
    IF w = None THEN None ELSE PyMax2(MIN_WINDOW * Sec, FHalf(w))

\* self.window_sec after zoom_in
ZoomInWindow(w) ==
    LET w0 == IF w = None THEN DEFAULT_WINDOW * Sec ELSE w
    IN  PyMax2(MIN_WINDOW * Sec, FHalf(w0))

zoom_in ==
    /\ UNCHANGED app_vars
    /\ window_sec' = ZoomInWindow(window_sec)
    /\ LET g == Redraw(history, history_keys, window_sec', pan_var, canvas_w, canvas_h)
       IN  /\ SetGeom(g)
           /\ canvas_items' = Paint(active_channels, history, channel_visibility, g)
    /\ last' = [op |-> "zoom_in", w_pre |-> window_sec]
    /\ UNCHANGED <<store_vars, channel_visibility, pan_var, canvas_w, canvas_h,
                   hover_label, arrived, calls>>

\* Mutant of ZoomOutReturnsEarly: the total_span <= 0 test is missing
ZoomOutReturnsEarly_NoSpanTest(h, keys) ==
    \/ keys = <<>>
    \/ AllTimes(h, keys, 1) = <<>>

\* zoom_out returns early, without redrawing, when there is nothing to span
ZoomOutReturnsEarly(h, keys) ==
    \/ keys = <<>>
    \/ AllTimes(h, keys, 1) = <<>>
    \/ LET all_times == AllTimes(h, keys, 1)
       IN  FLe(FSub(PyMax(all_times), PyMin(all_times)), 0)

\* Mutant of ZoomOutWindow: the window is not doubled
ZoomOutWindow_NoDouble(w, total_span) ==
    LET w0 == IF w = None THEN total_span ELSE w
    IN  IF FGe(w0, total_span) THEN None ELSE w0

\* Mutant of ZoomOutWindow: the doubled window is never replaced by None
ZoomOutWindow_NeverFull(w, total_span) ==
    FDouble(IF w = None THEN total_span ELSE w)

\* self.window_sec after zoom_out, given total_span > 0 (or NaN)
ZoomOutWindow(w, total_span) ==
    LET w0 == IF w = None THEN total_span ELSE w
        w2 == FDouble(w0)
    IN  IF FGe(w2, total_span) THEN None ELSE w2

zoom_out ==
    /\ UNCHANGED app_vars
    /\ IF ZoomOutReturnsEarly(history, history_keys)
       THEN UNCHANGED <<window_sec, geom_vars, canvas_items>>
       ELSE LET all_times == AllTimes(history, history_keys, 1)
                total_span == FSub(PyMax(all_times), PyMin(all_times))
                g == Redraw(history, history_keys,
                            ZoomOutWindow(window_sec, total_span), pan_var,
                            canvas_w, canvas_h)
            IN  /\ window_sec' = ZoomOutWindow(window_sec, total_span)
                /\ SetGeom(g)
                /\ canvas_items' = Paint(active_channels, history,
                                         channel_visibility, g)
    /\ last' = [op |-> "zoom_out", w_pre |-> window_sec,
                after_in |-> (last.op = "zoom_in"),
                w_pre_in |-> IF last.op = "zoom_in" THEN last.w_pre ELSE window_sec]
    /\ UNCHANGED <<store_vars, channel_visibility, pan_var, canvas_w, canvas_h,
                   hover_label, arrived, calls>>

\* A click on the checkbox of an active channel: the BooleanVar flips, then
\* command=self.redraw
toggle(ch) ==
    /\ UNCHANGED app_vars
    /\ ch \in ActiveIds
    /\ channel_visibility' = [channel_visibility EXCEPT ![ch] = ~@]
    /\ LET g == Redraw(history, history_keys, window_sec, pan_var, canvas_w, canvas_h)
       IN  /\ SetGeom(g)
           /\ canvas_items' = Paint(active_channels, history, channel_visibility', g)
    /\ last' = [op |-> "toggle", ch |-> ch]
    /\ UNCHANGED <<store_vars, window_sec, pan_var, canvas_w, canvas_h, hover_label,
                   arrived, calls>>

\* The pan slider is moved to value: the DoubleVar takes it, then
\* command=lambda v: self.redraw()
pan(value) ==
    /\ UNCHANGED app_vars
    /\ pan_var' = value
    /\ LET g == Redraw(history, history_keys, window_sec, value, canvas_w, canvas_h)
       IN  /\ SetGeom(g)
           /\ canvas_items' = Paint(active_channels, history, channel_visibility, g)
    /\ last' = [op |-> "pan", value |-> value, had_geom |-> (plot_left # None)]
    /\ UNCHANGED <<store_vars, channel_visibility, window_sec, canvas_w, canvas_h,
                   hover_label, arrived, calls>>

\* The window is resized: the canvas (fill=both, expand=True) takes a new
\* size. Nothing is bound to <Configure>, so nothing is redrawn.
configure(w, h) ==
    /\ UNCHANGED app_vars
    /\ canvas_w' = w
    /\ canvas_h' = h
    /\ last' = [op |-> "configure"]
    /\ UNCHANGED <<store_vars, channel_visibility, window_sec, pan_var, geom_vars,
                   canvas_items, hover_label, arrived, calls>>

\* Mutant of on_mouse_move: a pointer outside the rectangle drops the cached
\* geometry
on_mouse_move_Invalidates(x, y) ==
    /\ UNCHANGED app_vars
    /\ hover_label' = Readout(active_channels, history, history_keys,
                              channel_visibility, Geom, x, y)
    /\ IF plot_left # None /\ Outside(Geom, x, y)
       THEN SetGeom(NoGeom)
       ELSE UNCHANGED geom_vars
    /\ last' = [op |-> "on_mouse_move", x |-> x, y |-> y,
                again |-> (last.op = "on_mouse_move" /\ last.x = x /\ last.y = y)]
    /\ UNCHANGED <<store_vars, channel_visibility, window_sec, pan_var,
                   canvas_w, canvas_h, canvas_items, arrived, calls>>

\* <Motion> on the canvas with the pointer at (x, y)
on_mouse_move(x, y) ==
    /\ UNCHANGED app_vars
    /\ hover_label' = Readout(active_channels, history, history_keys,
                              channel_visibility, Geom, x, y)
    /\ last' = [op |-> "on_mouse_move", x |-> x, y |-> y,
                again |-> (last.op = "on_mouse_move" /\ last.x = x /\ last.y = y)]
    /\ UNCHANGED <<store_vars, channel_visibility, window_sec, pan_var,
                   canvas_w, canvas_h, geom_vars, canvas_items, arrived, calls>>

\* <Leave>: lambda e: self.hover_label_var.set("")
leave ==
    /\ UNCHANGED app_vars
    /\ hover_label' = HoverEmpty
    /\ last' = [op |-> "leave"]
    /\ UNCHANGED <<store_vars, channel_visibility, window_sec, pan_var,
                   canvas_w, canvas_h, geom_vars, canvas_items, arrived, calls>>

----------------------------------------------------------------------------
(* ArduinoInterface.poll (src/logger_core.py).  A line, decoded and         *)
(* stripped, is the sequence of its comma-separated parts; a part is a key  *)
(* ("TEMP", "HOLD", "PWM", or "" when there is no "KEY:" in front) and the  *)
(* text after it.  The empty line has no part.                              *)

Part(key, text) == [key |-> key, text |-> text]

\* "TEMP:" in line
HasTemp(line) == \E i \in 1..Len(line) : line[i].key = "TEMP"

\* for p in parts: each TEMP/HOLD/PWM part is assigned as it is parsed; the
\* first float() that raises ValueError ends the loop, with the assignments
\* made so far kept
RECURSIVE ParseParts(_, _, _)
ParseParts(st, line, i) ==
    IF i > Len(line) THEN st
    ELSE LET f == ParseFloat(line[i].text)
             k == line[i].key
         IN  IF k \notin {"TEMP", "HOLD", "PWM"} THEN ParseParts(st, line, i + 1)
             ELSE IF ~f.ok THEN st
             ELSE ParseParts(
                      [temp |-> IF k = "TEMP" THEN f.x ELSE st.temp,
                       hold |-> IF k = "HOLD" THEN f.x ELSE st.hold,
                       pwm  |-> IF k = "PWM" THEN f.x ELSE st.pwm],
                      line, i + 1)

\* float(line) of the fallback branch: a number only when the line is one
\* bare part that reads as one
ParseBare(st, line) ==
    IF Len(line) = 1 /\ line[1].key = "" /\ ParseFloat(line[1].text).ok
    THEN [st EXCEPT !.temp = ParseFloat(line[1].text).x]
    ELSE st

\* latest_temp, latest_hold, latest_pwm after poll(): buf holds the lines
\* waiting in the serial buffer, the last of them is the one parsed;
\* read_fails is an exception while reading
ArduinoPoll(st, buf, read_fails) ==
    IF read_fails \/ buf = <<>> THEN st
    ELSE LET line == buf[Len(buf)]
         IN  IF line = <<>> THEN st
             ELSE IF HasTemp(line) THEN ParseParts(st, line, 1)
             ELSE ParseBare(st, line)

Latest == [temp |-> latest_temp, hold |-> latest_hold, pwm |-> latest_pwm]

poll(buf, read_fails) ==
    /\ LET st == ArduinoPoll(Latest, buf, read_fails)
       IN  /\ latest_temp' = st.temp
           /\ latest_hold' = st.hold
           /\ latest_pwm' = st.pwm
           /\ poll_ret' = <<st.temp, st.hold, st.pwm>>
    /\ last' = [op |-> "poll", buf |-> buf, read_fails |-> read_fails,
                before |-> Latest]
    /\ UNCHANGED <<store_vars, channel_visibility, window_sec, pan_var,
                   canvas_w, canvas_h, geom_vars, canvas_items, hover_label,
                   run_vars, arrived, calls>>

----------------------------------------------------------------------------
(* ThermalLoggerApp (src/main_logger.py).  The window it opens is the       *)
(* LiveGraphWindow class of main_logger.py itself: the same store, window   *)
(* and slider as above, a redraw that draws every active channel and caches *)
(* no geometry, no toggles and no hover readout.                            *)

main_margin_left  == 10    \* plot_left = legend_width + 10
main_margin_right == 20

\* most callbacks allowed to wait at once before Start is pressed again
MaxPending == 2

NoToggles == [ch \in {} |-> TRUE]

\* the canvas after redraw of main_logger.py: cleared when there is no
\* history or fewer than two times, left alone when the canvas is too
\* narrow, otherwise a polyline and a legend entry per active channel
MainRedraw(act, h, keys, win, pv, cw, chh, items) ==
    IF keys = <<>> THEN NoItems
    ELSE LET all_times == AllTimes(h, keys, 1)
             all_vals  == AllVals(h, keys, 1)
         IN  IF Len(all_times) < 2 \/ all_vals = <<>> THEN NoItems
             ELSE LET rng == VisibleRange(win, pv, PyMin(all_times), PyMax(all_times))
                      lo  == PyMin(all_vals)
                      w   == IF cw = 0 THEN FALLBACK_W ELSE cw
                      hh  == IF chh = 0 THEN FALLBACK_H ELSE chh
                      g   == [plot_left |-> legend_width + main_margin_left,
                              plot_right |-> w - main_margin_right,
                              plot_top |-> margin_top,
                              plot_bottom |-> hh - margin_bottom,
                              tmin |-> rng[1],
                              tmax |-> Widen(rng[1], rng[2], Sec),
                              vmin |-> lo,
                              vmax |-> Widen(lo, PyMax(all_vals), Deg)]
                  IN  IF g.plot_right <= g.plot_left + MIN_PLOT_W
                      THEN items
                      ELSE [lines  |-> Polylines(act, 1, h, NoToggles, g),
                            legend |-> Legend(act, 1, NoToggles)]

\* the duration field: blank is no limit, a positive number of minutes is
\* that many seconds, anything else is refused
ParseDuration(text) ==
    IF text = "" THEN [ok |-> TRUE, x |-> None]
    ELSE IF text = "0.1" THEN [ok |-> TRUE, x |-> 6 * Sec]
    ELSE [ok |-> FALSE, x |-> None]

\* where start_logging ends for a filled-in form
StartEnds(form) ==
    IF form.inputs # "ok" THEN "inputs"
    ELSE IF form.use_arduino /\ form.serial = "invalid" THEN "arduino"
    ELSE IF ~ParseDuration(form.duration).ok THEN "duration"
    ELSE IF ~form.tc08_ok THEN "tc08"
    ELSE IF ~form.csv_ok THEN "csv"
    ELSE "started"

\* Start button.  form: inputs ("ok", or "invalid" for a channel count that
\* is no number, out of range, or no channel at all), channels,
\* use_arduino, serial ("ok"; "invalid" for no pyserial, no port or a
\* setpoint that is no number; "fails" when the port cannot be opened),
\* duration (the text of the field), tc08_ok, csv_ok
start_logging(form) ==
    LET ends    == StartEnds(form)
        past_ar == ends \notin {"inputs", "arduino"}
        past_du == ends \notin {"inputs", "arduino", "duration"}
        fresh   == graph_window # "alive"
    IN  IF is_logging
        THEN /\ last' = [op |-> "start_logging", ends |-> "already"]
             /\ UNCHANGED <<store_vars, channel_visibility, window_sec, pan_var,
                            canvas_w, canvas_h, geom_vars, canvas_items,
                            hover_label, app_vars, arrived, calls>>
        ELSE /\ timers < MaxPending
             /\ app_channels' = IF ends = "inputs" THEN app_channels
                                ELSE form.channels
             /\ use_arduino_flag' =
                    IF ends = "inputs" THEN use_arduino_flag
                    ELSE form.use_arduino /\ form.serial = "ok"
             /\ arduino' = IF past_ar /\ form.use_arduino
                           THEN (IF form.serial = "ok" THEN "open" ELSE "None")
                           ELSE arduino
             \* ArduinoInterface(port_name): a new object, nothing parsed yet
             /\ IF past_ar /\ form.use_arduino /\ form.serial = "ok"
                THEN latest_temp' = None /\ latest_hold' = None /\ latest_pwm' = None
                ELSE UNCHANGED ard_vars
             /\ duration_seconds' = IF past_du THEN ParseDuration(form.duration).x
                                    ELSE duration_seconds
             /\ logger' = IF ~past_du THEN logger
                          ELSE IF ends = "started" THEN "open" ELSE "None"
             /\ csv_file' = IF ends = "started" THEN "open" ELSE csv_file
             /\ csv_rows' = IF ends = "started" THEN 0 ELSE csv_rows
             /\ IF ends = "started"
                THEN \* ensure_graph_window(); graph_window.set_channels(...)
                     /\ graph_window' = "alive"
                     /\ active_channels' = list(form.channels)
                     /\ history' = EmptyHistory
                     /\ history_keys' = <<>>
                     /\ window_sec' = IF fresh THEN DEFAULT_WINDOW * Sec ELSE window_sec
                     /\ pan_var' = IF fresh THEN 0 ELSE pan_var
                     /\ canvas_items' = IF fresh THEN NoItems ELSE canvas_items
                     /\ arrived' = NoArrivals
                     /\ calls' = 0
                     /\ is_logging' = TRUE
                     /\ timers' = timers + 1
                ELSE UNCHANGED <<graph_window, store_vars, window_sec, pan_var,
                                 canvas_items, arrived, calls, is_logging, timers>>
             /\ last' = [op |-> "start_logging", ends |-> ends]
             /\ UNCHANGED <<channel_visibility, canvas_w, canvas_h, geom_vars,
                            hover_label, poll_ret>>

\* Mutant of poll_once: a destroyed window ends the run
\* (stop_logging instead of dropping the reference)
poll_once_StopsOnClosedWindow(rd, buf, read_fails, elapsed) ==
    /\ timers > 0
    /\ is_logging /\ graph_window = "destroyed"
    /\ is_logging' = FALSE
    /\ logger' = "None" /\ csv_file' = "None" /\ arduino' = "None"
    /\ graph_window' = "None"
    /\ timers' = timers - 1
    /\ last' = [op |-> "poll_once", ended |-> "window", window |-> graph_window,
                rows |-> csv_rows, elapsed |-> elapsed, read_ok |-> rd.ok]
    /\ UNCHANGED <<store_vars, channel_visibility, window_sec, pan_var,
                   canvas_w, canvas_h, geom_vars, canvas_items, hover_label,
                   ard_vars, poll_ret, csv_rows, use_arduino_flag,
                   duration_seconds, app_channels, arrived, calls>>

\* A pending after(1000, self.poll_once) callback fires.  rd is what
\* self.logger.read() does (ok, temps), buf and read_fails what the Arduino
\* poll finds, elapsed is time.time() - self.start_time.  The callback ends
\*   "not_logging"  at the first test;
\*   "read_error"   in stop_logging(error=True), after read() raised;
\*   "type_error"   in the TypeError of formatting a hold or PWM of None;
\*   "graph_error"  in an exception out of add_sample;
\*   "duration"     in stop_logging(error=False);
\*   "rescheduled"  in self.after(1000, self.poll_once)
poll_once(rd, buf, read_fails, elapsed) ==
    LET temps  == IF logger # "None" THEN rd.temps ELSE [ch \in {} |-> PyFloatObj(0)]
        polls  == use_arduino_flag /\ arduino # "None"
        ar     == IF polls THEN ArduinoPoll(Latest, buf, read_fails) ELSE Latest
        st     == AddLoop([h |-> history, keys |-> history_keys, exc |-> ""],
                          active_channels, 1, elapsed, temps)
        ended  == IF ~is_logging THEN "not_logging"
                  ELSE IF logger # "None" /\ ~rd.ok THEN "read_error"
                  ELSE IF polls /\ ar.temp # None
                                /\ (ar.hold = None \/ ar.pwm = None)
                       THEN "type_error"
                  ELSE IF graph_window = "alive" /\ st.exc # "" THEN "graph_error"
                  ELSE IF duration_seconds # None /\ FGe(elapsed, duration_seconds)
                       THEN "duration"
                  ELSE "rescheduled"
        polled == polls /\ ended \notin {"not_logging", "read_error"}
        wrote  == ended \in {"graph_error", "duration", "rescheduled"}
        stops  == ended \in {"read_error", "duration"}
    IN  /\ timers > 0
        /\ csv_rows < MaxCalls
        /\ timers' = IF ended = "rescheduled" THEN timers ELSE timers - 1
        /\ latest_temp' = IF polled THEN ar.temp ELSE latest_temp
        /\ latest_hold' = IF polled THEN ar.hold ELSE latest_hold
        /\ latest_pwm' = IF polled THEN ar.pwm ELSE latest_pwm
        /\ poll_ret' = IF polled THEN <<ar.temp, ar.hold, ar.pwm>> ELSE poll_ret
        /\ csv_rows' = IF wrote /\ csv_file # "None" THEN csv_rows + 1 ELSE csv_rows
        /\ IF wrote /\ graph_window = "alive"
           THEN \* self.graph_window.add_sample(elapsed, temps)
                /\ history' = st.h
                /\ history_keys' = st.keys
                /\ canvas_items' =
                       IF st.exc # "" THEN canvas_items
                       ELSE MainRedraw(active_channels, st.h, st.keys, window_sec,
                                       pan_var, canvas_w, canvas_h, canvas_items)
                /\ arrived' = [ch \in ChanIds |->
                                 IF ValidValue(temps, ch)
                                 THEN Append(arrived[ch],
                                             <<elapsed, NumberOf(temps, ch)>>)
                                 ELSE arrived[ch]]
                /\ calls' = calls + 1
                /\ UNCHANGED graph_window
           ELSE /\ graph_window' = IF wrote THEN "None" ELSE graph_window
                /\ UNCHANGED <<history, history_keys, canvas_items, arrived, calls>>
        \* stop_logging
        /\ is_logging' = IF stops THEN FALSE ELSE is_logging
        /\ logger' = IF stops THEN "None" ELSE logger
        /\ csv_file' = IF stops THEN "None" ELSE csv_file
        /\ arduino' = IF stops THEN "None" ELSE arduino
        /\ last' = [op |-> "poll_once", ended |-> ended, window |-> graph_window,
                    rows |-> csv_rows, elapsed |-> elapsed, read_ok |-> rd.ok]
        /\ UNCHANGED <<active_channels, channel_visibility, window_sec, pan_var,
                       canvas_w, canvas_h, geom_vars, hover_label,
                       use_arduino_flag, duration_seconds, app_channels>>

\* Stop button: on_stop, stop_logging(error=False)
on_stop ==
    /\ is_logging
    /\ is_logging' = FALSE
    /\ logger' = "None" /\ csv_file' = "None" /\ arduino' = "None"
    /\ last' = [op |-> "on_stop"]
    /\ UNCHANGED <<store_vars, channel_visibility, window_sec, pan_var,
                   canvas_w, canvas_h, geom_vars, canvas_items, hover_label,
                   ard_vars, poll_ret, graph_window, timers, csv_rows,
                   use_arduino_flag, duration_seconds, app_channels,
                   arrived, calls>>

\* WM_DELETE_WINDOW of the graph window: LiveGraphWindow.on_close, destroy()
on_close ==
    /\ graph_window = "alive"
    /\ graph_window' = "destroyed"
    /\ last' = [op |-> "on_close"]
    /\ UNCHANGED <<store_vars, channel_visibility, window_sec, pan_var,
                   canvas_w, canvas_h, geom_vars, canvas_items, hover_label,
                   ard_vars, poll_ret, is_logging, timers, logger, csv_file,
                   csv_rows, arduino, use_arduino_flag, duration_seconds,
                   app_channels, arrived, calls>>

----------------------------------------------------------------------------
(* Inputs *)

F(d) == PyFloatObj(d * Deg)

\* temps dicts: readings for both channels; one reading NaN, None, missing,
\* a text that is no number, a list, a text that is a number, the text "nan"
TempsInputs ==
    { (1 :> F(10) @@ 2 :> F(12)),
      (1 :> F(12) @@ 2 :> PyFloatObj(NaN)),
      (1 :> PyNoneObj @@ 2 :> F(10)),
      (2 :> PyStrObj("abc")),
      (1 :> PyListObj @@ 2 :> PyStrObj("12.00")),
      (1 :> F(10) @@ 2 :> PyStrObj("nan")) }

\* elapsed seconds, as poll_once computes them: finite; repeated and
\* decreasing values are not excluded
ElapsedInputs == { 0, 6 * Sec }

----------------------------------------------------------------------------
(* The store under set_channels and add_sample *)

NextStore ==
    \/ \E chans \in ChannelLists : set_channels(chans)
    \/ \E e \in ElapsedInputs, temps \in TempsInputs : add_sample(e, temps)

SpecStore == Init /\ [][NextStore]_vars

\* The same two handlers when the caller may also pass NaN as the elapsed time
ElapsedOrNaN == ElapsedInputs \cup {NaN}

NextNaN ==
    \/ \E chans \in ChannelLists : set_channels(chans)
    \/ \E e \in ElapsedOrNaN, temps \in TempsInputs : add_sample(e, temps)

SpecNaN == Init /\ [][NextNaN]_vars

----------------------------------------------------------------------------
(* Claims about the store *)

\* The <<time, value>> pairs a series holds, by position
PairAt(series, i) == <<series.t[i], series.v[i]>>

Min2(a, b) == IF a <= b THEN a ELSE b

\* A step of add_sample (the only handler that counts a call)
IsAddSampleStep == calls' = calls + 1

\* C1: in every reachable state each channel's time list and value list have
\* the same length, and that length is at most max_points.
C1_LengthsEqualAndCapped ==
    \A ch \in DOMAIN history :
        /\ Len(history[ch].t) = Len(history[ch].v)
        /\ Len(history[ch].t) <= max_points

\* a series is full and a pair has been evicted from it by the last add_sample
C1_Witness ==
    /\ last.op = "add_sample"
    /\ \E ch \in DOMAIN history :
        /\ Len(history[ch].t) = max_points
        /\ Len(arrived[ch]) > max_points
        /\ ValidValue(last.temps, ch)

\* C2: for every active channel, the stored series is the last
\* min(n, max_points) of the n pairs accepted for it since the last
\* set_channels, in arrival order.
C2_OldestEviction ==
    \A ch \in ActiveIds :
        LET n == Len(arrived[ch])
            k == Min2(n, max_points)
        IN  IF n = 0 THEN ch \notin DOMAIN history
            ELSE /\ ch \in DOMAIN history
                 /\ Len(history[ch].t) = k
                 /\ Len(history[ch].v) = k
                 /\ \A i \in 1..k : PairAt(history[ch], i) = arrived[ch][n - k + i]

\* more pairs were accepted than fit, the evicted first pair differing from
\* the newest one
C2_Witness ==
    \E ch \in ActiveIds :
        /\ Len(arrived[ch]) = max_points + 1
        /\ arrived[ch][1] # arrived[ch][max_points + 1]
        /\ arrived[ch][1] # arrived[ch][2]

\* C3: in an add_sample call no exception escapes; an active channel whose
\* value is missing, None, NaN or no number keeps its series as it was, and
\* every active channel with a valid value gets the pair appended.
C3_InvalidSkippedOthersAppended ==
    [][ IsAddSampleStep =>
          /\ last'.raised = ""
          /\ \A ch \in ActiveIds :
                IF ValidValue(last'.temps, ch)
                THEN /\ ch \in DOMAIN history'
                     /\ history'[ch].t[Len(history'[ch].t)] = last'.elapsed
                     /\ history'[ch].v[Len(history'[ch].v)] = NumberOf(last'.temps, ch)
                ELSE /\ (ch \in DOMAIN history') = (ch \in DOMAIN history)
                     /\ ch \in DOMAIN history => history'[ch] = history[ch]
      ]_vars

\* the last call carried None for channel 1, which had a series, and a number
\* for channel 2, both active
C3_Witness ==
    /\ last.op = "add_sample"
    /\ ActiveIds = {1, 2}
    /\ 1 \in DOMAIN last.temps /\ last.temps[1].kind = "None"
    /\ ValidValue(last.temps, 2)
    /\ 1 \in DOMAIN history /\ 2 \in DOMAIN history
    /\ Len(history[2].t) > Len(history[1].t)

\* C4 (as claimed): no stored time is ever NaN, add_sample rejecting a NaN
\* elapsed time.
C4_NoStoredTimeIsNaN ==
    \A ch \in DOMAIN history :
        \A i \in 1..Len(history[ch].t) : ~IsNaN(history[ch].t[i])

\* C5: the ids with a series in history are exactly the active ids for which
\* a valid value was supplied since the last set_channels (values supplied
\* for other ids create nothing), and no series is empty.
C5_HistoryKeys ==
    /\ DOMAIN history = { ch \in ActiveIds : arrived[ch] # <<>> }
    /\ \A ch \in DOMAIN history : history[ch].t # <<>> /\ history[ch].v # <<>>
    /\ { history_keys[i] : i \in 1..Len(history_keys) } = DOMAIN history
    /\ Len(history_keys) = Cardinality(DOMAIN history)

\* a valid value was supplied for channel 2, which is not active, while the
\* active channel 1 was given nothing valid in one call and a number in another
C5_Witness ==
    /\ ActiveIds = {1}
    /\ arrived[2] # <<>>
    /\ Len(arrived[1]) = 1
    /\ calls >= 2
    /\ DOMAIN history = {1}

\* C6: after set_channels(L) history is empty and the active channel list is
\* L, in L's order.
C6_SetChannelsResets ==
    last.op = "set_channels" =>
        /\ DOMAIN history = {}
        /\ history_keys = <<>>
        /\ active_channels = last.chans

\* set_channels ran on a window holding two series and was given the two
\* channels in the order 2, 1
C6_Witness ==
    /\ last.op = "set_channels"
    /\ last.n_before = 2
    /\ last.chans = <<Chan(2), Chan(1)>>
    /\ active_channels[1][1] = 2

----------------------------------------------------------------------------
(* Visibility flags across set_channels *)

NextVis ==
    \/ \E chans \in ChannelLists \cup { <<Chan(2)>> } : set_channels(chans)
    \/ \E ch \in ChanIds : toggle(ch)
    \/ \E e \in ElapsedInputs : add_sample(e, (1 :> F(10) @@ 2 :> F(12)))

SpecVis == Init /\ [][NextVis]_vars

\* C7: across set_channels an id that already had a visibility flag keeps its
\* value (hidden stays hidden), whether or not it is in the new list, and an
\* id that never had one gets true.
C7_VisibilityPersists ==
    [][ last'.op = "set_channels" =>
          /\ \A ch \in DOMAIN channel_visibility :
                /\ ch \in DOMAIN channel_visibility'
                /\ channel_visibility'[ch] = channel_visibility[ch]
          /\ \A ch \in (DOMAIN channel_visibility') \ (DOMAIN channel_visibility) :
                /\ channel_visibility'[ch] = TRUE
                /\ ch \in { last'.chans[i][1] : i \in 1..Len(last'.chans) }
          /\ \A i \in 1..Len(last'.chans) :
                last'.chans[i][1] \in DOMAIN channel_visibility'
      ]_vars

\* set_channels has just listed channel 1, hidden in an earlier
\* configuration and still hidden, together with channel 2, new and visible
C7_Witness ==
    /\ last.op = "set_channels"
    /\ ActiveIds = {1, 2}
    /\ last.new_ids = {2}
    /\ channel_visibility[1] = FALSE
    /\ channel_visibility[2] = TRUE

----------------------------------------------------------------------------
(* Zoom *)

\* one reading per channel; elapsed times that give spans of 0 s, of 6 s and of
\* more than the 300 s default
ZoomTemps == { (1 :> F(10) @@ 2 :> F(12)) }
ZoomElapsed == { 0, 6 * Sec, 400 * Sec }

NextZoom ==
    \/ \E chans \in ChannelLists : set_channels(chans)
    \/ \E e \in ZoomElapsed, temps \in ZoomTemps : add_sample(e, temps)
    \/ zoom_in
    \/ zoom_out

SpecZoom == Init /\ [][NextZoom]_vars

\* The retained times of all channels, and their span (0 when there are none)
RetainedTimes ==
    UNION { { history[ch].t[i] : i \in 1..Len(history[ch].t) } : ch \in DOMAIN history }

TotalSpan ==
    IF RetainedTimes = {} THEN 0
    ELSE (CHOOSE hi \in RetainedTimes : \A x \in RetainedTimes : x <= hi)
         - (CHOOSE lo \in RetainedTimes : \A x \in RetainedTimes : lo <= x)

\* The length of time a window setting shows: the full span for None,
\* otherwise the window, at most the span
VisibleLen(w) == IF w = None THEN TotalSpan ELSE Min2(w, TotalSpan)

\* C8 (as claimed): zoom_in followed immediately by zoom_out shows at least
\* as much as before the zoom_in, from every reachable state.
C8_ZoomInOutNeverShrinks ==
    (last.op = "zoom_out" /\ last.after_in) =>
        VisibleLen(window_sec) >= VisibleLen(last.w_pre_in)

\* C8 (amended): the same when the window was not None before the zoom_in or
\* the span is at most the 300 s default; from the full view of a longer
\* span the pair leaves a 300 s window.
C8_ZoomInOutFromWindow ==
    (last.op = "zoom_out" /\ last.after_in) =>
        IF last.w_pre_in # None \/ TotalSpan <= DEFAULT_WINDOW * Sec
        THEN VisibleLen(window_sec) >= VisibleLen(last.w_pre_in)
        ELSE window_sec = DEFAULT_WINDOW * Sec

\* zoom_in then zoom_out from a 40 s window inside a longer span: 20 s, 40 s
C8_Witness ==
    /\ last.op = "zoom_out" /\ last.after_in
    /\ last.w_pre_in = 40 * Sec
    /\ window_sec = 40 * Sec
    /\ TotalSpan > 40 * Sec

\* C9: window_sec is None or a number of at least 5 seconds.
C9_WindowNoneOrAtLeastFloor ==
    \/ window_sec = None
    \/ ~IsNaN(window_sec) /\ window_sec >= MIN_WINDOW * Sec

\* zoom_in has just floored a window whose half is below 5 s
C9_Witness ==
    /\ last.op = "zoom_in"
    /\ last.w_pre # None
    /\ last.w_pre > MIN_WINDOW * Sec
    /\ last.w_pre < 2 * MIN_WINDOW * Sec
    /\ window_sec = MIN_WINDOW * Sec

\* C10: after zoom_in window_sec is not None and equals max(5, w/2), w the
\* window before, None counting as 300 s.
C10_ZoomInHalvesWithFloor ==
    last.op = "zoom_in" =>
        LET w == IF last.w_pre = None THEN DEFAULT_WINDOW * Sec ELSE last.w_pre
        IN  /\ window_sec # None
            /\ IF w >= 2 * MIN_WINDOW * Sec
               THEN 2 * window_sec = w
               ELSE window_sec = MIN_WINDOW * Sec

\* zoom_in from the full view: 150 s
C10_Witness ==
    /\ last.op = "zoom_in"
    /\ last.w_pre = None
    /\ window_sec = 150 * Sec

\* C11: with a total span S > 0, zoom_out leaves 2w when 2w < S and None
\* otherwise, w being the window before and None counting as S; so from None
\* it stays None.
C11_ZoomOutDoublesOrFull ==
    (last.op = "zoom_out" /\ TotalSpan > 0) =>
        LET w == IF last.w_pre = None THEN TotalSpan ELSE last.w_pre
        IN  /\ window_sec = (IF 2 * w < TotalSpan THEN 2 * w ELSE None)
            /\ last.w_pre = None => window_sec = None

\* zoom_out has doubled a 20 s window inside a longer span
C11_Witness ==
    /\ last.op = "zoom_out"
    /\ last.w_pre = 20 * Sec
    /\ window_sec = 40 * Sec
    /\ TotalSpan = 400 * Sec

\* C12: zoom_out changes neither window_sec nor history nor the cached
\* geometry when nothing is retained or the total span is <= 0.
C12_ZoomOutNoOp ==
    [][ (last'.op = "zoom_out" /\ TotalSpan <= 0) =>
            /\ window_sec' = window_sec
            /\ history' = history /\ history_keys' = history_keys
            /\ UNCHANGED geom_vars
      ]_vars

\* zoom_out has run on two retained samples of the same time, with a
\* geometry cached
C12_Witness ==
    /\ last.op = "zoom_out"
    /\ RetainedTimes # {}
    /\ TotalSpan = 0
    /\ plot_left # None
    /\ window_sec = last.w_pre

----------------------------------------------------------------------------
(* The visible range: zoom and pan *)

\* readings that leave the two channels with different times and values, or
\* with the same; elapsed times 200 s apart, less than the 300 s default
\* window and more than half of it; slider positions from 0 to 100
ViewTemps == { (1 :> F(10) @@ 2 :> F(12)),
               (1 :> F(10) @@ 2 :> PyFloatObj(NaN)) }
ViewElapsed == { 0, 200 * Sec }
PanInputs == { 0, 50, 100 }
BothChannels == { <<Chan(1), Chan(2)>> }

NextView ==
    \/ \E chans \in BothChannels : set_channels(chans)
    \/ \E e \in ViewElapsed, temps \in ViewTemps : add_sample(e, temps)
    \/ zoom_in
    \/ zoom_out
    \/ \E value \in PanInputs : pan(value)

SpecView == Init /\ [][NextView]_vars

\* Extremes and retained values computed from the history as a set
SetMin(S) == CHOOSE lo \in S : \A x \in S : lo <= x
SetMax(S) == CHOOSE hi \in S : \A x \in S : x <= hi

RetainedValues ==
    UNION { { history[ch].v[i] : i \in 1..Len(history[ch].v) } : ch \in DOMAIN history }

\* a geometry is cached
GeomCached == plot_left # None

\* C13: a cached geometry has tmax > tmin and vmax > vmin.
C13_RangesNotEmpty ==
    GeomCached => (tmax > tmin /\ vmax > vmin)

\* a geometry cached from the full view of samples that all have the same
\* time and the same value
C13_Witness ==
    /\ GeomCached
    /\ window_sec = None
    /\ RetainedTimes # {} /\ TotalSpan = 0
    /\ Cardinality(RetainedValues) = 1
    /\ tmax = tmin + Sec
    /\ vmax = vmin + Deg

\* C14: with a window set and a span S > 0 the cached range is
\* window = min(window_sec, S) long, starts at
\* globalMin + f * (globalMax - window - globalMin) when window < S and at
\* globalMin otherwise; pan 0 starts at globalMin, pan 100 ends at globalMax.
C14_WindowedRange ==
    (GeomCached /\ window_sec # None /\ TotalSpan > 0) =>
        LET gmin   == SetMin(RetainedTimes)
            gmax   == SetMax(RetainedTimes)
            window == Min2(window_sec, TotalSpan)
            room   == gmax - window - gmin
            off    == tmin - gmin
        IN  /\ tmax = tmin + window
            /\ window < TotalSpan =>
                   \* off = (pan_var / 100) * room
                   /\ room % 100 = 0
                   /\ off = pan_var * (room \div 100)
            /\ window >= TotalSpan => tmin = gmin
            /\ pan_var = 0 => tmin = gmin
            /\ pan_var = 100 => tmax = gmax

\* a 150 s window over a span of 200 s, with the slider half way
C14_Witness ==
    /\ GeomCached
    /\ window_sec = 150 * Sec
    /\ TotalSpan = 200 * Sec
    /\ pan_var = 50
    /\ tmin = 25 * Sec
    /\ tmax = 175 * Sec

\* C15: with a span > 0 the cached range lies inside the global extent.
C15_RangeInsideExtent ==
    (GeomCached /\ TotalSpan > 0) =>
        /\ SetMin(RetainedTimes) <= tmin
        /\ tmax <= SetMax(RetainedTimes)

\* the slider at its upper end over a window shorter than the span: the
\* range ends at the latest time
C15_Witness ==
    /\ GeomCached
    /\ window_sec # None
    /\ TotalSpan > 0
    /\ window_sec < TotalSpan
    /\ pan_var = 100
    /\ tmin > SetMin(RetainedTimes)
    /\ tmax = SetMax(RetainedTimes)

\* C16: in the full view (window_sec None) with a span > 0 the cached range
\* is the minimum and the maximum of the times of all channels.
C16_FullViewRange ==
    (GeomCached /\ window_sec = None /\ TotalSpan > 0) =>
        /\ tmin = SetMin(RetainedTimes)
        /\ tmax = SetMax(RetainedTimes)

\* the full view of two channels of which neither holds both extremes
C16_Witness ==
    /\ GeomCached
    /\ window_sec = None
    /\ TotalSpan > 0
    /\ tmin = 0 /\ tmax = 200 * Sec
    /\ \A ch \in DOMAIN history :
           \/ \A i \in 1..Len(history[ch].t) : history[ch].t[i] # tmin
           \/ \A i \in 1..Len(history[ch].t) : history[ch].t[i] # tmax

----------------------------------------------------------------------------
(* The value range under zoom, pan and the visibility toggles *)

\* elapsed times 6 s apart, more than the 5 s floor of the window; the slider
\* at either end; the checkbox of the channel that holds the maximum
ScaleElapsed == { 0, 6 * Sec }
ScalePan == { 0, 100 }
ScaleToggles == { 2 }

NextScale ==
    \/ \E chans \in BothChannels : set_channels(chans)
    \/ \E e \in ScaleElapsed, temps \in ViewTemps : add_sample(e, temps)
    \/ zoom_in
    \/ zoom_out
    \/ \E value \in ScalePan : pan(value)
    \/ \E ch \in ScaleToggles : toggle(ch)

SpecScale == Init /\ [][NextScale]_vars

\* zoom, pan and the visibility toggles
ViewOps == { "zoom_in", "zoom_out", "pan", "toggle" }

----------------------------------------------------------------------------
(* The cached geometry when redraw bails out, and on a small canvas *)

\* the canvas of the 950x500 window, a canvas too narrow for a plot, and a
\* canvas lower than the two vertical margins together
CanvasSizes == { <<WIN_W - 2 * CANVAS_PADX, WIN_H - 100>>,
                 <<legend_width + margin_left_extra + margin_right + MIN_PLOT_W,
                   WIN_H - 100>>,
                 <<WIN_W - 2 * CANVAS_PADX, 2 * margin_top>> }

NextCanvas ==
    \/ \E chans \in BothChannels : set_channels(chans)
    \/ \E e \in ScaleElapsed, temps \in ViewTemps : add_sample(e, temps)
    \/ \E value \in ScalePan : pan(value)
    \/ \E size \in CanvasSizes : configure(size[1], size[2])

SpecCanvas == Init /\ [][NextCanvas]_vars

GeomAllNone ==
    /\ plot_left = None /\ plot_right = None /\ plot_top = None
    /\ plot_bottom = None
    /\ tmin = None /\ tmax = None /\ vmin = None /\ vmax = None

GeomAllSet ==
    /\ plot_left # None /\ plot_right # None /\ plot_top # None
    /\ plot_bottom # None
    /\ tmin # None /\ tmax # None /\ vmin # None /\ vmax # None

\* the last handler ended with a redraw
JustRedrew ==
    \/ last.op = "pan"
    \/ last.op = "add_sample" /\ last.raised = ""

\* the number of retained time points of all channels
TimePoints ==
    (IF 1 \in DOMAIN history THEN Len(history[1].t) ELSE 0)
    + (IF 2 \in DOMAIN history THEN Len(history[2].t) ELSE 0)

\* the plot is at most 10 pixels wide
TooNarrow == canvas_w - margin_right <= legend_width + margin_left_extra + 10

\* the conditions under which redraw returns before it caches a geometry
RedrawBails == DOMAIN history = {} \/ TimePoints < 2 \/ TooNarrow

\* C18: the eight geometry fields are all None or all set in every state, and
\* all None after a redraw that bailed out (empty history, fewer than 2 time
\* points, or a plot at most 10 pixels wide).
C18_BailOutClearsGeometry ==
    /\ GeomAllNone \/ GeomAllSet
    /\ (JustRedrew /\ RedrawBails) => GeomAllNone

\* a redraw that found a geometry cached and bailed out
C18_Witness ==
    /\ last.op = "pan"
    /\ last.had_geom
    /\ RedrawBails
    /\ GeomAllNone

C20_SmallCanvasInvalidates ==
    (JustRedrew /\ (\/ canvas_h - margin_bottom <= margin_top
                    \/ canvas_w - margin_right <= legend_width + margin_left_extra))
        => GeomAllNone

----------------------------------------------------------------------------
(* The cached geometry against the current state *)

\* C21: on a canvas of fixed size, after every handler the cached geometry
\* is what a redraw of the current history, window_sec and pan would cache.
C21_GeometryNeverStale ==
    Geom = Redraw(history, history_keys, window_sec, pan_var, canvas_w, canvas_h)

----------------------------------------------------------------------------
(* The hover readout *)

\* readings that give channel 1 two different values and leave channel 2
\* without a sample
HoverTemps == { (1 :> F(10) @@ 2 :> F(12)),
                (1 :> F(12) @@ 2 :> PyFloatObj(NaN)) }
HoverElapsed == { 0, 200 * Sec }
HoverToggles == { 1 }

\* pointer positions on the 934x400 canvas, whose plot rectangle is
\* 160..894 by 20..370: two corners and the middle of the rectangle
PointersInside == { <<160, 20>>, <<527, 200>>, <<894, 370>> }

\* one pixel beyond each edge of the rectangle
PointersOutside == { <<159, 200>>, <<895, 200>>, <<527, 19>>, <<527, 371>> }

NextHover ==
    \/ \E chans \in BothChannels : set_channels(chans)
    \/ \E e \in HoverElapsed, temps \in HoverTemps : add_sample(e, temps)
    \/ \E ch \in HoverToggles : toggle(ch)
    \/ \E p \in PointersInside \cup PointersOutside : on_mouse_move(p[1], p[2])
    \/ leave

SpecHover == Init /\ [][NextHover]_vars

\* elapsed times inside and outside the 300 s window that starts at 0
NearestElapsed == { 0, 200 * Sec, 400 * Sec }

NextNearest ==
    \/ \E chans \in BothChannels : set_channels(chans)
    \/ \E e \in NearestElapsed, temps \in HoverTemps : add_sample(e, temps)
    \/ \E ch \in HoverToggles : toggle(ch)
    \/ \E p \in PointersInside : on_mouse_move(p[1], p[2])

SpecNearest == Init /\ [][NextNearest]_vars

\* the last event was a pointer motion; where the pointer was
MouseMoved == last.op = "on_mouse_move"

PointerInside ==
    /\ plot_left # None
    /\ plot_left <= last.x /\ last.x <= plot_right
    /\ plot_top <= last.y /\ last.y <= plot_bottom

PointerOnEdge ==
    /\ PointerInside
    /\ last.x \in {plot_left, plot_right} \/ last.y \in {plot_top, plot_bottom}

\* the time under the pointer on the cached axis
CursorTime ==
    tmin + MulFrac(last.x - plot_left, plot_right - plot_left, tmax - tmin)

\* the positions of a channel's retained samples inside the cached range
InWindowIdx(ch) ==
    { i \in 1..Len(history[ch].t) :
        tmin <= history[ch].t[i] /\ history[ch].t[i] <= tmax }

Dist(ch, i) == Abs(history[ch].t[i] - CursorTime)

\* the in-window sample nearest to the pointer, the earliest of equals
BestIdx(ch) ==
    CHOOSE i \in InWindowIdx(ch) :
        \A j \in InWindowIdx(ch) :
            Dist(ch, i) < Dist(ch, j) \/ (Dist(ch, i) = Dist(ch, j) /\ i <= j)

\* a visible channel with a retained sample inside the cached range
Contributes(ch) ==
    /\ ch \in DOMAIN history
    /\ channel_visibility[ch]
    /\ plot_left # None
    /\ InWindowIdx(ch) # {}

\* the contributing channels, in the order of active_channels
Contributors == SelectSeq(active_channels, LAMBDA c : Contributes(c[1]))

\* C22: as long as no valid reading has arrived since set_channels,
\* on_mouse_move sets the empty readout wherever the pointer is.
C22_NoReadoutAfterSetChannels ==
    (MouseMoved /\ arrived = NoArrivals) => hover_label = HoverEmpty

\* the pointer inside the rectangle of the previous run's plot, still cached
\* and still drawn after set_channels
C22_Witness ==
    /\ MouseMoved
    /\ arrived = NoArrivals
    /\ PointerInside
    /\ canvas_items.lines # <<>>
    /\ hover_label = HoverEmpty

\* C23: on_mouse_move sets the empty readout when no geometry is cached or
\* the pointer is strictly outside the cached rectangle; a pointer on an edge
\* is inside, so it gets a readout when a channel contributes.
C23_OutsideIsEmptyEdgeIsInside ==
    MouseMoved =>
        /\ ~PointerInside => hover_label = HoverEmpty
        /\ (PointerOnEdge /\ Contributors # <<>>) => hover_label.kind = "readout"

\* a readout for a pointer on the bottom right corner of the rectangle
C23_Witness ==
    /\ MouseMoved
    /\ last.x = plot_right
    /\ last.y = plot_bottom
    /\ hover_label.kind = "readout"

\* C24: the value a readout gives for a channel is that of its sample
\* nearest to the cursor time among those inside the cached [tmin, tmax], the
\* earliest of equally near ones.
C24_NearestInWindowFirstOfEquals ==
    (MouseMoved /\ hover_label.kind = "readout") =>
        \A k \in 1..Len(hover_label.parts) :
            \E ch \in ActiveIds :
                /\ ChanName(ch) = hover_label.parts[k][1]
                /\ Contributes(ch)
                /\ hover_label.parts[k][2] = FmtDeg(history[ch].v[BestIdx(ch)])

\* the pointer half way between the two samples of channel 1, 200 s apart:
\* the earlier one is reported
C24_Witness ==
    /\ MouseMoved
    /\ hover_label.kind = "readout"
    /\ channel_visibility[1]
    /\ 1 \in DOMAIN history
    /\ history[1].t = <<0, 200 * Sec>>
    /\ history[1].v = <<10 * Deg, 12 * Deg>>
    /\ CursorTime = 100 * Sec
    /\ hover_label.parts[1] = <<ChanName(1), FmtDeg(10 * Deg)>>

\* C25: with a geometry cached and the pointer inside the rectangle, the
\* readout is non-empty exactly when some channel contributes, and it lists
\* the contributing channels, in display order, and no others.
C25_ReadoutListsContributors ==
    (MouseMoved /\ PointerInside) =>
        /\ hover_label.kind = "readout" <=> Contributors # <<>>
        /\ hover_label.kind = "readout" =>
               /\ Len(hover_label.parts) = Len(Contributors)
               /\ \A k \in 1..Len(Contributors) :
                      hover_label.parts[k][1] = Contributors[k][2]

\* channel 1 is hidden and has samples in the range; the readout lists
\* channel 2 alone
C25_Witness ==
    /\ MouseMoved
    /\ PointerInside
    /\ ~channel_visibility[1]
    /\ 1 \in DOMAIN history
    /\ InWindowIdx(1) # {}
    /\ hover_label.kind = "readout"
    /\ Len(hover_label.parts) = 1
    /\ hover_label.parts[1][1] = ChanName(2)

\* C26: the time of a readout is the matched sample time of the first
\* contributing channel, in minutes.
C26_TimeOfFirstContributor ==
    (MouseMoved /\ hover_label.kind = "readout") =>
        LET ch == Contributors[1][1]
        IN  hover_label.t = FmtMin(history[ch].t[BestIdx(ch)])

\* the pointer at 0 s; channel 1 matches its sample at 200 s, channel 2 its
\* sample at 0 s; the readout shows 3.33 min
C26_Witness ==
    /\ MouseMoved
    /\ hover_label.kind = "readout"
    /\ Len(hover_label.parts) = 2
    /\ CursorTime = 0
    /\ history[1].t[BestIdx(1)] = 200 * Sec
    /\ history[2].t[BestIdx(2)] = 0
    /\ hover_label.t = 333

\* C27: on_mouse_move changes nothing but the hover label, and a second query
\* at the same pixel right after the first gives the same readout.
C27_HoverChangesOnlyLabel ==
    [][ last'.op = "on_mouse_move" =>
            /\ UNCHANGED <<store_vars, channel_visibility, window_sec, pan_var,
                           canvas_w, canvas_h, geom_vars, canvas_items>>
            /\ last'.again => hover_label' = hover_label
      ]_vars

\* the same pixel queried twice, with a readout
C27_Witness ==
    /\ MouseMoved
    /\ last.again
    /\ hover_label.kind = "readout"

----------------------------------------------------------------------------
(* Hidden channels *)

\* both channels read every time, 6 s apart; either checkbox; the pointer in
\* the middle of the plot
HiddenElapsed == { 0, 6 * Sec }
HiddenPointers == { <<527, 200>> }

NextHidden ==
    \/ \E chans \in BothChannels : set_channels(chans)
    \/ \E e \in HiddenElapsed, temps \in ZoomTemps : add_sample(e, temps)
    \/ \E ch \in ChanIds : toggle(ch)
    \/ \E p \in HiddenPointers : on_mouse_move(p[1], p[2])

SpecHidden == Init /\ [][NextHidden]_vars

\* the retained samples of a channel as <<time, value>> pairs, and those of
\* them inside the cached range
RetainedPairs(ch) == [i \in 1..Len(history[ch].t) |-> PairAt(history[ch], i)]

InWindowPairs(ch) ==
    SelectSeq(RetainedPairs(ch), LAMBDA p : tmin <= p[1] /\ p[1] <= tmax)

\* C28: no polyline, legend entry or readout part belongs to a hidden
\* channel; a toggle leaves history as it was; add_sample appends to hidden
\* channels as to visible ones; and a channel just turned visible has its line
\* through every retained sample in the range.
C28_HiddenChannels ==
    [][ /\ \A k \in 1..Len(canvas_items'.lines) :
               channel_visibility'[canvas_items'.lines[k].ch]
        /\ \A k \in 1..Len(canvas_items'.legend) :
               channel_visibility'[canvas_items'.legend[k].ch]
        /\ (last'.op = "on_mouse_move" /\ hover_label'.kind = "readout") =>
               \A k \in 1..Len(hover_label'.parts) :
                   \A ch \in ActiveIds' :
                       ChanName(ch) = hover_label'.parts[k][1]
                           => channel_visibility'[ch]
        /\ last'.op = "toggle" => history' = history
        /\ (last'.op = "add_sample" /\ last'.raised = "") =>
               \A ch \in ActiveIds :
                   ValidValue(last'.temps, ch) =>
                       /\ ch \in DOMAIN history'
                       /\ PairAt(history'[ch], Len(history'[ch].t))
                              = <<last'.elapsed, NumberOf(last'.temps, ch)>>
        /\ \A c \in ChanIds :
               (/\ last'.op = "toggle"
                /\ last'.ch = c
                /\ channel_visibility'[c]
                /\ plot_left' # None
                /\ c \in DOMAIN history'
                /\ Len(InWindowPairs(c)') >= 2) =>
                   \E k \in 1..Len(canvas_items'.lines) :
                       /\ canvas_items'.lines[k].ch = c
                       /\ canvas_items'.lines[k].pts = InWindowPairs(c)'
      ]_vars

\* a sample has just been stored for the hidden channel 2, which now holds
\* two; channel 1 is drawn and listed, channel 2 is not
C28_Witness ==
    /\ last.op = "add_sample"
    /\ DOMAIN history = {1, 2}
    /\ ~channel_visibility[2]
    /\ channel_visibility[1]
    /\ Len(history[2].t) = 2
    /\ Len(canvas_items.lines) = 1
    /\ canvas_items.lines[1].ch = 1
    /\ Len(canvas_items.legend) = 1

----------------------------------------------------------------------------
(* ArduinoInterface.poll *)

\* lines: empty; a bare number and a bare text; the full format; a later
\* part that is no number; a first part that is no number; no TEMP part
ArduinoLines ==
    { <<>>,
      <<Part("", "12.00")>>,
      <<Part("", "abc")>>,
      <<Part("TEMP", "25.30"), Part("HOLD", "12.00"), Part("PWM", "12.00")>>,
      <<Part("TEMP", "12.00"), Part("HOLD", "abc"), Part("PWM", "12.00")>>,
      <<Part("TEMP", "abc"), Part("HOLD", "12.00")>>,
      <<Part("HOLD", "12.00")>> }

\* what a poll finds in the serial buffer: nothing, one line, or two
ArduinoBuffers ==
    { <<>> } \cup { <<l>> : l \in ArduinoLines }
             \cup { <<k, l>> : k \in ArduinoLines, l \in ArduinoLines }

NextArduino ==
    \E buf \in ArduinoBuffers, read_fails \in BOOLEAN : poll(buf, read_fails)

SpecArduino == Init /\ [][NextArduino]_vars

\* a line that is not in the expected format: with a TEMP part, some
\* TEMP/HOLD/PWM part whose text is no number; without one, anything but a
\* single bare number
Malformed(line) ==
    /\ line # <<>>
    /\ IF \E i \in 1..Len(line) : line[i].key = "TEMP"
       THEN \E i \in 1..Len(line) :
                /\ line[i].key \in {"TEMP", "HOLD", "PWM"}
                /\ line[i].text \notin {"12.00", "25.30"}
       ELSE ~(Len(line) = 1 /\ line[1].key = "" /\ line[1].text \in {"12.00", "25.30"})

\* C30: a poll whose newest line is empty or malformed leaves latest_temp,
\* latest_hold and latest_pwm as they were and returns them.
C30_MalformedLineKeepsLatest ==
    (/\ last.op = "poll"
     /\ last.buf # <<>>
     /\ LET line == last.buf[Len(last.buf)]
        IN  line = <<>> \/ Malformed(line)) =>
        /\ Latest = last.before
        /\ poll_ret = <<last.before.temp, last.before.hold, last.before.pwm>>

----------------------------------------------------------------------------
(* ThermalLoggerApp: a run with the graph window closed *)

AppTemps == (1 :> F(10) @@ 2 :> F(12))

\* what self.logger.read() does: a dict of readings, or an exception
AppReads == { [ok |-> TRUE, temps |-> AppTemps], [ok |-> FALSE, temps |-> AppTemps] }

\* the serial buffer at a poll: nothing, a full line, a bare temperature
AppBuffers ==
    { <<>>,
      << <<Part("TEMP", "25.30"), Part("HOLD", "12.00"), Part("PWM", "12.00")>> >>,
      << <<Part("", "12.00")>> >> }

AppElapsed == { 1 * Sec, 6 * Sec }

\* a form that starts a run: two channels, no Arduino, no duration
GoodForm ==
    [inputs |-> "ok", channels |-> <<Chan(1), Chan(2)>>, use_arduino |-> FALSE,
     serial |-> "ok", duration |-> "", tc08_ok |-> TRUE, csv_ok |-> TRUE]

\* the form when Start is pressed: the runs with and without Arduino and
\* duration, and one form for each way start_logging gives up
AppForms ==
    { GoodForm,
      [GoodForm EXCEPT !.use_arduino = TRUE],
      [GoodForm EXCEPT !.duration = "0.1"],
      [GoodForm EXCEPT !.use_arduino = TRUE, !.duration = "0.1"],
      [GoodForm EXCEPT !.inputs = "invalid"],
      [GoodForm EXCEPT !.use_arduino = TRUE, !.serial = "invalid"],
      [GoodForm EXCEPT !.use_arduino = TRUE, !.serial = "fails"],
      [GoodForm EXCEPT !.use_arduino = TRUE, !.duration = "abc"],
      [GoodForm EXCEPT !.tc08_ok = FALSE],
      [GoodForm EXCEPT !.csv_ok = FALSE] }

NextApp ==
    \/ \E form \in AppForms : start_logging(form)
    \/ \E rd \in AppReads, buf \in AppBuffers, e \in AppElapsed :
           poll_once(rd, buf, FALSE, e)
    \/ on_stop
    \/ on_close

SpecApp == Init /\ [][NextApp]_vars

\* the Arduino poll of this callback returned a temperature with no hold or
\* PWM value, which the status line cannot format
PollUnformattable ==
    /\ use_arduino_flag /\ arduino # "None"
    /\ poll_ret'[1] # None
    /\ poll_ret'[2] = None \/ poll_ret'[3] = None

\* C29: closing the live graph window does not stop logging.  Closing
\* changes nothing of the run, and a poll_once that finds the window
\* destroyed while is_logging is true ends as it would with the window open:
\* a failed read stops the run, a poll result that cannot be formatted ends
\* the callback, and otherwise the row is written, the reference to the
\* window becomes None with the store untouched, and the callback is
\* scheduled again with is_logging still true unless the duration is reached
C29_ClosingDoesNotStopLogging ==
    [][ /\ last'.op = "on_close" =>
              UNCHANGED <<is_logging, timers, logger, csv_file, csv_rows, arduino>>
        /\ (last'.op = "poll_once" /\ is_logging /\ graph_window = "destroyed") =>
              IF ~last'.read_ok THEN ~is_logging'
              ELSE IF PollUnformattable THEN is_logging' /\ graph_window' = graph_window
              ELSE /\ csv_rows' = csv_rows + 1
                   /\ graph_window' = "None"
                   /\ UNCHANGED <<store_vars, canvas_items>>
                   /\ IF duration_seconds # None
                         /\ FGe(last'.elapsed, duration_seconds)
                      THEN ~is_logging'
                      ELSE /\ is_logging'
                           /\ timers' = timers
                           /\ UNCHANGED <<logger, csv_file, arduino>>
      ]_vars

\* a second row written after the window was closed: the poll that found it
\* destroyed wrote one and scheduled itself, the next one wrote again
C29_Witness ==
    /\ last.op = "poll_once" /\ last.window = "None" /\ last.ended = "rescheduled"
    /\ graph_window = "None"
    /\ is_logging /\ timers = 1
    /\ csv_rows = 2 /\ calls = 0

----------------------------------------------------------------------------
(* The order of the stored times *)

\* a list of times that never goes back
NonDecreasing(ts) == \A i \in 1..(Len(ts) - 1) : FLe(ts[i], ts[i + 1])

\* the elapsed times of the valid readings that arrived for a channel
ArrivedTimes(ch) == [i \in 1..Len(arrived[ch]) |-> arrived[ch][i][1]]

\* C31: when the elapsed times that arrived for a channel since the last
\* set_channels are non-decreasing (as they are when the elapsed times of
\* the successive add_sample calls are), the channel's stored times are
\* non-decreasing, with and without evictions
C31_StoredTimesSorted ==
    \A ch \in DOMAIN history :
        NonDecreasing(ArrivedTimes(ch)) => NonDecreasing(history[ch].t)

\* more readings arrived in time order than are kept; the ones kept are two
\* different times, in that order
C31_Witness ==
    /\ 1 \in DOMAIN history
    /\ NonDecreasing(ArrivedTimes(1))
    /\ Len(arrived[1]) > max_points
    /\ Len(history[1].t) = max_points
    /\ history[1].t[1] < history[1].t[max_points]

----------------------------------------------------------------------------
(* redraw: the polylines and the legend *)

NextDraw ==
    \/ \E chans \in BothChannels : set_channels(chans)
    \/ \E e \in NearestElapsed, temps \in HoverTemps : add_sample(e, temps)
    \/ \E ch \in ChanIds : toggle(ch)
    \/ \E value \in ScalePan : pan(value)

SpecDraw == Init /\ [][NextDraw]_vars

\* the last handler redrew the canvas from the present store and view
DrawnNow ==
    /\ last.op \in {"add_sample", "toggle", "pan"}
    /\ last.op = "add_sample" => last.raised = ""

\* the polylines on the canvas that belong to a channel
LinesOf(ch) ==
    { k \in 1..Len(canvas_items.lines) : canvas_items.lines[k].ch = ch }

\* C32: after a redraw that cached a geometry, an active channel has a
\* polyline if and only if it is visible, has at least 2 retained samples and
\* at least 2 of them in [tmin, tmax]; it has one polyline at most, whose
\* vertices are those in-window samples in arrival order
C32_PolylineIffTwoInWindow ==
    (DrawnNow /\ GeomCached) =>
        \A i \in 1..Len(active_channels) :
            LET ch == active_channels[i][1]
            IN  /\ LinesOf(ch) # {} <=>
                       /\ channel_visibility[ch]
                       /\ ch \in DOMAIN history
                       /\ Len(history[ch].t) >= 2
                       /\ Len(InWindowPairs(ch)) >= 2
                /\ Cardinality(LinesOf(ch)) <= 1
                /\ \A k \in LinesOf(ch) :
                       canvas_items.lines[k].pts = InWindowPairs(ch)

\* channel 2 is drawn through its two samples; channel 1, visible and with
\* two retained samples of which one is in the window, is not
C32_Witness ==
    /\ DrawnNow /\ GeomCached
    /\ DOMAIN history = {1, 2}
    /\ channel_visibility[1] /\ channel_visibility[2]
    /\ Len(history[1].t) = 2 /\ Len(InWindowPairs(1)) = 1
    /\ LinesOf(1) = {}
    /\ LinesOf(2) # {} /\ Len(InWindowPairs(2)) = 2

\* all vertices on the canvas, each with the sample it was computed from;
\* the coordinates are those of the geometry the redraw cached
DrawnVertices ==
    UNION { { [t |-> canvas_items.lines[k].pts[j][1],
               v |-> canvas_items.lines[k].pts[j][2],
               x |-> Vertices(canvas_items.lines[k].pts, Geom)[j][1],
               y |-> Vertices(canvas_items.lines[k].pts, Geom)[j][2]] :
              j \in 1..Len(canvas_items.lines[k].pts) } :
            k \in 1..Len(canvas_items.lines) }

\* C33: after a redraw that cached a geometry every polyline vertex lies in
\* the cached plot rectangle; a sample at tmin is drawn at plot_left, at tmax
\* at plot_right, a value vmin at plot_bottom, vmax at plot_top; x does not
\* decrease with t and y does not increase with v
C33_VerticesInsidePlot ==
    (DrawnNow /\ GeomCached) =>
        /\ \A p \in DrawnVertices :
               /\ plot_left <= p.x /\ p.x <= plot_right
               /\ plot_top <= p.y /\ p.y <= plot_bottom
               /\ p.t = tmin => p.x = plot_left
               /\ p.t = tmax => p.x = plot_right
               /\ p.v = vmin => p.y = plot_bottom
               /\ p.v = vmax => p.y = plot_top
        /\ \A p, q \in DrawnVertices :
               /\ p.t <= q.t => p.x <= q.x
               /\ p.v <= q.v => p.y >= q.y

----------------------------------------------------------------------------
(* The colours, with more channels than colours *)

\* the lists start_logging builds for eight inputs, with the cold junction
\* (id 0) in front and without it
NineNames == <<"CJ", "CH1", "CH2", "CH3", "CH4", "CH5", "CH6", "CH7", "CH8">>
NineChannels ==
    { [i \in 1..Len(NineNames) |-> <<i - 1, NineNames[i]>>],
      [i \in 1..(Len(NineNames) - 1) |-> <<i, NineNames[i + 1]>>] }

\* a reading for every id, and one for the even ids only
NineTemps == { [ch \in 0..8 |-> F(10)], [ch \in {0, 2, 4, 6, 8} |-> F(12)] }

ColorToggles == { 0, 8 }

NextColors ==
    \/ \E chans \in NineChannels : set_channels(chans)
    \/ \E e \in HiddenElapsed, temps \in NineTemps : add_sample(e, temps)
    \/ \E ch \in ColorToggles : toggle(ch)

SpecColors == Init /\ [][NextColors]_vars

\* the positions (from 1) of an id in the active list
PositionsOf(ch) == { i \in 1..Len(active_channels) : active_channels[i][1] = ch }

\* C34: after a redraw, the colour of every polyline and of every legend
\* swatch is the colour at (position - 1) mod 8 of the colour list, for the
\* position of its channel in the active list, whatever the id and whatever
\* the other channels show or hold
C34_ColorByPosition ==
    DrawnNow =>
        /\ \A k \in 1..Len(canvas_items.lines) :
               \E i \in PositionsOf(canvas_items.lines[k].ch) :
                   canvas_items.lines[k].color = GraphColors[((i - 1) % 8) + 1]
        /\ \A k \in 1..Len(canvas_items.legend) :
               \E i \in PositionsOf(canvas_items.legend[k].ch) :
                   canvas_items.legend[k].color = GraphColors[((i - 1) % 8) + 1]

\* the ninth channel of the list is drawn and listed in the first colour
\* while the first channel is hidden and the second has no line
C34_Witness ==
    /\ DrawnNow
    /\ Len(active_channels) = 9
    /\ ~channel_visibility[0]
    /\ \E k \in 1..Len(canvas_items.lines) :
           canvas_items.lines[k].ch = 8 /\ canvas_items.lines[k].color = "blue"
    /\ \E k \in 1..Len(canvas_items.legend) :
           canvas_items.legend[k].ch = 8 /\ canvas_items.legend[k].color = "blue"
    /\ \E k \in 1..Len(canvas_items.legend) :
           canvas_items.legend[k].ch = 1 /\ canvas_items.legend[k].color = "red"
    /\ LinesOf(1) = {}

\* without the cold junction the same id 1 is first in the list and blue
C34_WitnessOtherList ==
    /\ DrawnNow
    /\ Len(active_channels) = 8
    /\ \E k \in 1..Len(canvas_items.lines) :
           canvas_items.lines[k].ch = 1 /\ canvas_items.lines[k].color = "blue"

----------------------------------------------------------------------------
(* Who writes what: every handler of the window *)

\* two elapsed times, so that zoom_out has a span to work on; one slider
\* position away from the start; one pointer position inside the plot.
\* (A resize of the window runs no code of the class.)
FrameElapsed == { 0, 6 * Sec }
FramePan == { 100 }

NextFrame ==
    \/ \E chans \in BothChannels : set_channels(chans)
    \/ \E e \in FrameElapsed, temps \in ZoomTemps : add_sample(e, temps)
    \/ zoom_in
    \/ zoom_out
    \/ \E ch \in ScaleToggles : toggle(ch)
    \/ \E value \in FramePan : pan(value)
    \/ \E p \in HiddenPointers : on_mouse_move(p[1], p[2])
    \/ leave

SpecFrame == Init /\ [][NextFrame]_vars

\* C35: history changes only in add_sample and set_channels, window_sec only
\* in zoom_in and zoom_out, the visibility flags only in a toggle and in a
\* set_channels that lists new ids (the flags there were stay); add_sample
\* and set_channels leave window_sec and the slider as they were
C35_FixedWriters ==
    [][ /\ <<history, history_keys>>' # <<history, history_keys>> =>
               last'.op \in {"add_sample", "set_channels"}
        /\ window_sec' # window_sec => last'.op \in {"zoom_in", "zoom_out"}
        /\ channel_visibility' # channel_visibility =>
               \/ last'.op = "toggle"
               \/ /\ last'.op = "set_channels"
                  /\ last'.new_ids # {}
                  /\ \A ch \in DOMAIN channel_visibility :
                         channel_visibility'[ch] = channel_visibility[ch]
        /\ last'.op \in {"add_sample", "set_channels"} =>
               UNCHANGED <<window_sec, pan_var>>
      ]_vars

\* set_channels has started a new run after the window was zoomed to 150 s,
\* the slider moved to the right and channel 2 hidden in the previous run
C35_Witness ==
    /\ last.op = "set_channels"
    /\ last.n_before > 0
    /\ window_sec = (DEFAULT_WINDOW * Sec) \div 2
    /\ pan_var = 100
    /\ ~channel_visibility[2]

----------------------------------------------------------------------------
(* ThermalLoggerApp: the timer, the resources and the duration *)

\* C36: at most one poll_once callback is pending at any time
C36_AtMostOneTimer == timers <= 1

\* C37: while is_logging is true a poll_once callback is pending
C37_PollAlwaysPending == is_logging => timers >= 1

\* C38: when start_logging has returned or stop_logging has completed with
\* is_logging false, the TC-08 handle, the CSV file and the Arduino port are
\* closed and their references are None
C38_NothingHeldWhenIdle ==
    (~is_logging /\ last.op \in {"start_logging", "on_stop", "poll_once"}) =>
        /\ logger = "None"
        /\ csv_file = "None"
        /\ arduino = "None"

\* C39: a poll_once of a run with a duration whose read succeeds at an elapsed
\* time that has reached the duration stops the run (is_logging false, the
\* resources released) and does not schedule itself again; in a run without
\* duration a poll_once whose read succeeds leaves is_logging true
C39_DurationStopsRun ==
    [][ (last'.op = "poll_once" /\ is_logging /\ last'.read_ok) =>
            IF duration_seconds = None THEN is_logging'
            ELSE FGe(last'.elapsed, duration_seconds) =>
                     /\ ~is_logging'
                     /\ timers' = timers - 1
                     /\ logger' = "None" /\ csv_file' = "None" /\ arduino' = "None"
      ]_vars

====
